---- MODULE Spec2Model ----
(***************************************************************************)
(* A model of the viz-raster pipeline: the value range bookkeeping of      *)
(* ConfigManager, the grid binning of Raster.from_vector, the colour       *)
(* mapping of WebImage.to_image, the pyramid build of RasterTiler and the  *)
(* merge of Raster.from_rasters.                                           *)
(*                                                                         *)
(* Python's None is the empty tuple <<>>; a value v that may be None is    *)
(* carried as the one-element tuple <<v>>.  A val_range is None or the     *)
(* pair <<min, max>> of two such optional values (a Python list of two     *)
(* items).  Every val_range list is an object of its own: no two places    *)
(* of the configuration share one list, as in a configuration read from    *)
(* JSON and in every list made by create_value_range.                      *)
(***************************************************************************)
EXTENDS Integers, Sequences, FiniteSets, TLC

VARIABLES
    statistics,   \* ConfigManager.config['statistics']: a list of statistic configs
    cm_pre,       \* config['statistics'] as it was before the last call
    cm_last,      \* the last ConfigManager call: its name, arguments and exception
    fv_in,        \* arguments of Raster.from_vector: vector, centroid_properties, stats
    fv_out,       \* what Raster.from_vector has produced, "pending" before the call
    wi_in,        \* arguments of WebImage: image_data, min_val, max_val, nodata_val
    wi_out,       \* what WebImage has produced, "pending" before the call
    rt_in,        \* the staged input files of a RasterTiler and its zoom range
    rt,           \* the RasterTiler during make_tiles: its fields and its position
    rt_disk,      \* the pixel value files that save_tile has written, by tile
    pv_in,        \* a tile and the pixel value files of its children
    pv_out,       \* what get_pixel_values_from_children has produced
    fr_in,        \* arguments of Raster.from_rasters: rasters, resampling_methods
    fr_out,       \* what Raster.from_rasters has produced
    config,       \* ConfigManager.config: the top-level dict, by key
    original_config,  \* ConfigManager.original_config: the top-level dict, by key
    cf_init,      \* the configuration and its statistics as they were at construction
    cf_last,      \* the calls made on the ConfigManager since list_updates: how many, the last one
    cf_out        \* what list_updates has returned, "pending" before the call

cm_vars == <<statistics, cm_pre, cm_last>>
fv_vars == <<fv_in, fv_out>>
wi_vars == <<wi_in, wi_out>>
rt_vars == <<rt_in, rt, rt_disk>>
pv_vars == <<pv_in, pv_out>>
fr_vars == <<fr_in, fr_out>>
cf_vars == <<config, original_config, cf_init, cf_last, cf_out>>
vars == <<statistics, cm_pre, cm_last, fv_in, fv_out, wi_in, wi_out,
          rt_in, rt, rt_disk, pv_in, pv_out, fr_in, fr_out,
          config, original_config, cf_init, cf_last, cf_out>>

(***************************************************************************)
(* Bounds of the model.                                                    *)
(***************************************************************************)
MaxVal == 1        \* range endpoints are drawn from 0..MaxVal
MaxZ == 1          \* zoom levels are 0..MaxZ
MaxEntries == 1    \* (stat, z) entries of one new_ranges argument
MaxPolys == 2      \* polygons of the vector given to from_vector
MaxPixel == 4      \* finite pixel values, min_val and max_val are drawn from 0..MaxPixel
MaxCells == 2      \* cells of the image_data given to WebImage

None == <<>>
Some(v) == <<v>>
Vals == 0..MaxVal
OptVals == {None} \cup {Some(v) : v \in Vals}
Zs == 0..MaxZ
OptZs == {None} \cup {Some(z) : z \in Zs}
Ranges == {<<lo, hi>> : lo \in OptVals, hi \in OptVals}

\* Names of the configured statistics, in configuration order, and a name
\* that no statistic has.
ConfiguredNames == <<"a", "b">>
StatArgs == {"a", "b", "x"}

(***************************************************************************)
(* ConfigManager                                                           *)
(***************************************************************************)

\* z_config.get(z): an absent key, or a dict that may hold a 'val_range'.
AbsentEntry == [present |-> FALSE, val_range |-> None]
EmptyEntry == [present |-> TRUE, val_range |-> None]
RangeEntry(r) == [present |-> TRUE, val_range |-> r]

\* Exceptions are carried in the result: exc is "none" when the call returns.
Ok(v) == [exc |-> "none", val |-> v]
Raise(e) == [exc |-> e, val |-> None]

\* The index in stats of the first statistic named stat; 0 stands for None.
get_stat_config(stats, stat) ==
    IF \E i \in 1..Len(stats) : stats[i].name = stat
    THEN CHOOSE i \in 1..Len(stats) :
            /\ stats[i].name = stat
            /\ \A j \in 1..(i - 1) : stats[j].name # stat
    ELSE 0

get_value_range(stats, stat, z, sub_general) ==
    LET i == get_stat_config(stats, stat) IN
    IF i = 0 THEN Raise("ValueError")
    ELSE LET z_config == stats[i].z_config
             general_val_range == stats[i].val_range
         IN  IF z = None THEN Ok(general_val_range)
             ELSE IF ~z_config[z[1]].present
                  THEN IF sub_general THEN Ok(general_val_range) ELSE Ok(None)
                  ELSE Ok(z_config[z[1]].val_range)

get_min(stats, stat, z, sub_general) ==
    LET value_range == get_value_range(stats, stat, z, sub_general) IN
    IF value_range.exc # "none" THEN value_range
    ELSE IF value_range.val = None THEN Ok(None)
    ELSE IF value_range.val[1] = None /\ sub_general
         THEN LET g == get_value_range(stats, stat, None, FALSE) IN
              IF g.val = None THEN Raise("TypeError") ELSE Ok(g.val[1])
         ELSE Ok(value_range.val[1])

get_max(stats, stat, z, sub_general) ==
    LET value_range == get_value_range(stats, stat, z, sub_general) IN
    IF value_range.exc # "none" THEN value_range
    ELSE IF value_range.val = None THEN Ok(None)
    ELSE IF value_range.val[2] = None /\ sub_general
         THEN LET g == get_value_range(stats, stat, None, FALSE) IN
              IF g.val = None THEN Raise("TypeError") ELSE Ok(g.val[2])
         ELSE Ok(value_range.val[2])

max_missing(stats, stat, z, sub_general) ==
    LET value_range == get_value_range(stats, stat, z, sub_general) IN
    IF value_range.exc # "none" THEN value_range
    ELSE IF value_range.val = None THEN Ok(TRUE)
    ELSE Ok(value_range.val[2] = None)

min_missing(stats, stat, z, sub_general) ==
    LET value_range == get_value_range(stats, stat, z, sub_general) IN
    IF value_range.exc # "none" THEN value_range
    ELSE IF value_range.val = None THEN Ok(TRUE)
    ELSE Ok(value_range.val[1] = None)

\* create_value_range as it would be if it replaced an existing range.
create_value_range_replacing(stats, stat, z, overwrite) ==
    LET i == get_stat_config(stats, stat) IN
    IF i = 0 THEN Raise("AttributeError")
    ELSE IF z = None
    THEN Ok([stats EXCEPT ![i].val_range = <<None, None>>])
    ELSE Ok([stats EXCEPT ![i].z_config[z[1]] = RangeEntry(<<None, None>>)])

\* The configuration after create_value_range; the list the call returns is
\* the one then stored at (stat, z).
create_value_range(stats, stat, z, overwrite) ==
    LET i == get_stat_config(stats, stat) IN
    IF i = 0 THEN Raise("AttributeError")
    ELSE IF z = None
    THEN IF stats[i].val_range = None \/ overwrite
         THEN Ok([stats EXCEPT ![i].val_range = <<None, None>>])
         ELSE Ok(stats)
    ELSE IF stats[i].z_config[z[1]].val_range = None \/ overwrite
         THEN Ok([stats EXCEPT ![i].z_config[z[1]] = RangeEntry(<<None, None>>)])
         ELSE Ok(stats)

\* value_range[k] = value, on the list stored at (stat, z).
SetEndpoint(stats, stat, z, k, value) ==
    LET i == get_stat_config(stats, stat) IN
    IF z = None
    THEN [stats EXCEPT ![i].val_range[k] = value]
    ELSE [stats EXCEPT ![i].z_config[z[1]].val_range[k] = value]

set_min(stats, value, stat, z) ==
    LET created == create_value_range(stats, stat, z, FALSE) IN
    IF created.exc # "none" THEN [exc |-> created.exc, val |-> stats]
    ELSE Ok(SetEndpoint(created.val, stat, z, 1, value))

set_max(stats, value, stat, z) ==
    LET created == create_value_range(stats, stat, z, FALSE) IN
    IF created.exc # "none" THEN [exc |-> created.exc, val |-> stats]
    ELSE Ok(SetEndpoint(created.val, stat, z, 2, value))

\* UpdateOne as it would be if it filled in the minimum only.
UpdateOne_min_only(stats, e) ==
    LET mm == min_missing(stats, e.stat, Some(e.z), TRUE) IN
    IF mm.exc # "none" THEN [exc |-> mm.exc, val |-> stats]
    ELSE IF mm.val THEN set_min(stats, e.val_range[1], e.stat, Some(e.z))
    ELSE Ok(stats)

\* One pass of the loop body of update_ranges, for the entry e of new_ranges.
UpdateOne(stats, e) ==
    LET mm == min_missing(stats, e.stat, Some(e.z), TRUE) IN
    IF mm.exc # "none" THEN [exc |-> mm.exc, val |-> stats]
    ELSE LET s1 == IF mm.val THEN set_min(stats, e.val_range[1], e.stat, Some(e.z))
                   ELSE Ok(stats)
         IN  IF s1.exc # "none" THEN s1
             ELSE LET xm == max_missing(s1.val, e.stat, Some(e.z), TRUE) IN
                  IF xm.exc # "none" THEN [exc |-> xm.exc, val |-> s1.val]
                  ELSE IF xm.val
                       THEN set_max(s1.val, e.val_range[2], e.stat, Some(e.z))
                       ELSE s1

\* update_ranges as it would be if a failing call restored the ranges.
RECURSIVE update_ranges_restoring(_, _)
update_ranges_restoring(stats, new_ranges) ==
    IF new_ranges = <<>> THEN Ok(stats)
    ELSE LET r == UpdateOne(stats, Head(new_ranges)) IN
         IF r.exc # "none" THEN r
         ELSE LET rest == update_ranges_restoring(r.val, Tail(new_ranges)) IN
              IF rest.exc # "none" THEN [exc |-> rest.exc, val |-> stats] ELSE rest

\* new_ranges is the list of the (stat, z, val_range) entries of the dict,
\* in the order the two nested loops visit them.
RECURSIVE update_ranges(_, _)
update_ranges(stats, new_ranges) ==
    IF new_ranges = <<>> THEN Ok(stats)
    ELSE LET r == UpdateOne(stats, Head(new_ranges)) IN
         IF r.exc # "none" THEN r
         ELSE update_ranges(r.val, Tail(new_ranges))

(***************************************************************************)
(* Inputs and initial configurations of the ConfigManager.                 *)
(***************************************************************************)
RangeEntries == [stat : StatArgs, z : Zs, val_range : Ranges]

\* A dict has one entry per (stat, z) key.
NewRangesArgs ==
    UNION {{nr \in [1..n -> RangeEntries] :
                \A i, j \in 1..n :
                    (i # j) => <<nr[i].stat, nr[i].z>> # <<nr[j].stat, nr[j].z>>}
           : n \in 1..MaxEntries}

InitEntries == {AbsentEntry, EmptyEntry, RangeEntry(<<None, Some(MaxVal)>>)}
InitGeneral == {None, <<None, None>>, <<Some(0), None>>, <<Some(0), Some(MaxVal)>>}

StatConfigs(name) ==
    [name : {name}, val_range : InitGeneral, z_config : [Zs -> InitEntries]]

NoCall == [op |-> "init", stat |-> "", z |-> None, value |-> None,
           overwrite |-> FALSE, new_ranges |-> <<>>, exc |-> "none"]

\* The variables of the other components, which keep their idle values.
IdleFV == fv_in = <<>> /\ fv_out = <<>>
IdleWI == wi_in = <<>> /\ wi_out = <<>>
IdleRT == rt_in = <<>> /\ rt = <<>> /\ rt_disk = <<>>
IdlePV == pv_in = <<>> /\ pv_out = <<>>
IdleFR == fr_in = <<>> /\ fr_out = <<>>
IdleCF ==
    /\ config = <<>> /\ original_config = <<>> /\ cf_init = <<>>
    /\ cf_last = <<>> /\ cf_out = <<>>

InitCM ==
    /\ IdleFV
    /\ IdleWI
    /\ IdleRT
    /\ IdlePV
    /\ IdleFR
    /\ IdleCF
    /\ \E a \in StatConfigs("a") :
          statistics = <<a, [name |-> "b", val_range |-> <<Some(0), Some(MaxVal)>>,
                             z_config |-> [z \in Zs |-> AbsentEntry]]>>
    /\ cm_pre = statistics
    /\ cm_last = NoCall

\* A behaviour is one configuration and one call on it; the configurations
\* that earlier calls leave behind are among the initial ones.
Call(op, r) ==
    /\ UNCHANGED <<fv_vars, wi_vars, rt_vars, pv_vars, fr_vars, cf_vars>>
    /\ cm_pre' = statistics
    /\ statistics' = r.val
    /\ cm_last' = [op EXCEPT !.exc = r.exc]

SetMin ==
    /\ cm_last.op = "init"
    /\ \E value \in OptVals, stat \in StatArgs, z \in OptZs :
           Call([NoCall EXCEPT !.op = "set_min", !.stat = stat, !.z = z, !.value = value],
                set_min(statistics, value, stat, z))

SetMax ==
    /\ cm_last.op = "init"
    /\ \E value \in OptVals, stat \in StatArgs, z \in OptZs :
           Call([NoCall EXCEPT !.op = "set_max", !.stat = stat, !.z = z, !.value = value],
                set_max(statistics, value, stat, z))

CreateValueRange ==
    /\ cm_last.op = "init"
    /\ \E stat \in StatArgs, z \in OptZs, overwrite \in BOOLEAN :
           LET r == create_value_range(statistics, stat, z, overwrite) IN
           Call([NoCall EXCEPT !.op = "create_value_range", !.stat = stat, !.z = z,
                               !.overwrite = overwrite],
                [exc |-> r.exc, val |-> IF r.exc = "none" THEN r.val ELSE statistics])

UpdateRanges ==
    /\ cm_last.op = "init"
    /\ \E new_ranges \in NewRangesArgs :
           Call([NoCall EXCEPT !.op = "update_ranges", !.new_ranges = new_ranges],
                update_ranges(statistics, new_ranges))

NextCM == SetMin \/ SetMax \/ CreateValueRange \/ UpdateRanges

SpecCM == InitCM /\ [][NextCM]_vars

(***************************************************************************)
(* Claims about the ConfigManager, checked under SpecCM.                   *)
(***************************************************************************)
ConfiguredStats == {ConfiguredNames[i] : i \in 1..Len(ConfiguredNames)}

\* The val_range list stored at (stat, z) itself, None when there is none;
\* read off the configuration without the getters of the class.
StoredRange(stats, stat, z) ==
    LET i == get_stat_config(stats, stat) IN
    IF z = None THEN stats[i].val_range
    ELSE IF stats[i].z_config[z[1]].present
         THEN stats[i].z_config[z[1]].val_range
         ELSE None

\* Endpoint k (1 = min, 2 = max) stored at (stat, z); None when unset.
StoredEndpoint(stats, stat, z, k) ==
    IF StoredRange(stats, stat, z) = None THEN None
    ELSE StoredRange(stats, stat, z)[k]

Unset(stats, stat, z, k) == StoredEndpoint(stats, stat, z, k) = None

Getter(k, stats, stat, z, sub_general) ==
    IF k = 1 THEN get_min(stats, stat, z, sub_general)
    ELSE get_max(stats, stat, z, sub_general)

Missing(k, stats, stat, z, sub_general) ==
    IF k = 1 THEN min_missing(stats, stat, z, sub_general)
    ELSE max_missing(stats, stat, z, sub_general)

\* C1: update_ranges never changes what get_min / get_max (sub_general=True)
\* return at a (statistic, zoom level) where they returned a concrete value
\* before the call, whether that value was stored per zoom level or only
\* in the general val_range of the statistic.
C1_SetEndpointsKept ==
    (cm_last.op = "update_ranges") =>
        \A s \in ConfiguredStats, z \in Zs, k \in {1, 2} :
            LET before == Getter(k, cm_pre, s, Some(z), TRUE) IN
            (before.exc = "none" /\ before.val # None) =>
                Getter(k, statistics, s, Some(z), TRUE) = before

\* C2: min_missing / max_missing return true iff the endpoint is unset at
\* (s, z) and, with sub_general, also unset in the general range of s.
C2_MissingIffUnset ==
    \A s \in ConfiguredStats, z \in Zs, k \in {1, 2}, sub_general \in BOOLEAN :
        Missing(k, statistics, s, Some(z), sub_general) =
            Ok(/\ Unset(statistics, s, Some(z), k)
               /\ (sub_general => Unset(statistics, s, None, k)))

\* C3: after update_ranges, an endpoint of an entry (s, z, (lo, hi)) that
\* was unset both at (s, z) and in the general range of s before the call
\* is returned by get_min(s, z) / get_max(s, z) as lo / hi exactly.  The
\* entries are those the call has processed: the ones up to the first
\* statistic that is not configured.
C3_UnsetEndpointsFilled ==
    (cm_last.op = "update_ranges") =>
        \A n \in 1..Len(cm_last.new_ranges), k \in {1, 2} :
            LET e == cm_last.new_ranges[n] IN
            (/\ \A m \in 1..n : cm_last.new_ranges[m].stat \in ConfiguredStats
             /\ Unset(cm_pre, e.stat, Some(e.z), k)
             /\ Unset(cm_pre, e.stat, None, k)) =>
                Getter(k, statistics, e.stat, Some(e.z), FALSE) = Ok(e.val_range[k])

\* Witness of C3: an update_ranges call that returned and filled an unset
\* endpoint with a discovered value.
C3_Witness ==
    /\ cm_last.op = "update_ranges"
    /\ cm_last.exc = "none"
    /\ \E n \in 1..Len(cm_last.new_ranges), k \in {1, 2} :
          LET e == cm_last.new_ranges[n] IN
          /\ e.stat \in ConfiguredStats
          /\ Unset(cm_pre, e.stat, Some(e.z), k)
          /\ Unset(cm_pre, e.stat, None, k)
          /\ e.val_range[k] # None
          /\ StoredEndpoint(statistics, e.stat, Some(e.z), k) = e.val_range[k]

\* C4: get_value_range returns the per-zoom range of (s, z) when one is
\* configured; when none is configured at (s, z), the general range if z is
\* None or sub_general is true, and None otherwise.
C4_ValueRangeResolution ==
    \A s \in ConfiguredStats, z \in OptZs, sub_general \in BOOLEAN :
        get_value_range(statistics, s, z, sub_general) =
            Ok(IF z # None /\ StoredRange(statistics, s, z) # None
               THEN StoredRange(statistics, s, z)
               ELSE IF z = None \/ sub_general
                    THEN StoredRange(statistics, s, None)
                    ELSE None)

\* C5: set_min(v, s, z) (set_max) leaves a range at (s, z) whose min (max)
\* is v, and changes nothing else: not the other endpoint of (s, z), not the
\* general range of s when z is given, no other zoom level of s and no other
\* statistic.
C5_SetEndpointFrame ==
    (cm_last.op \in {"set_min", "set_max"} /\ cm_last.exc = "none") =>
        LET s == cm_last.stat
            z == cm_last.z
            k == IF cm_last.op = "set_min" THEN 1 ELSE 2
            i == get_stat_config(cm_pre, s)
        IN  /\ StoredRange(statistics, s, z) # None
            /\ StoredEndpoint(statistics, s, z, k) = cm_last.value
            /\ StoredEndpoint(statistics, s, z, 3 - k) = StoredEndpoint(cm_pre, s, z, 3 - k)
            /\ (z # None) => (statistics[i].val_range = cm_pre[i].val_range)
            /\ \A y \in Zs : (z # Some(y)) =>
                    (statistics[i].z_config[y] = cm_pre[i].z_config[y])
            /\ \A j \in 1..Len(cm_pre) : (j # i) => (statistics[j] = cm_pre[j])
            /\ Len(statistics) = Len(cm_pre)

\* Witness of C5: set_min or set_max created the range entry of a zoom level
\* that had none, while the statistic has a general range with a set endpoint.
C5_Witness ==
    /\ cm_last.op \in {"set_min", "set_max"}
    /\ cm_last.exc = "none"
    /\ cm_last.z # None
    /\ cm_last.value # None
    /\ StoredRange(cm_pre, cm_last.stat, cm_last.z) = None
    /\ StoredRange(statistics, cm_last.stat, cm_last.z) # None
    /\ StoredRange(statistics, cm_last.stat, None) # None
    /\ StoredRange(statistics, cm_last.stat, None) # <<None, None>>

(***************************************************************************)
(* Raster.from_vector                                                      *)
(*                                                                         *)
(* A number of a data frame or of a band is finite or NaN.  Finite         *)
(* numbers are carried in units of 1/Unit, where Unit is the area of a     *)
(* grid cell, so that area / cell_area is exact.  Coordinates are          *)
(* integers and np.linspace is exact on the grids used.  A polygon is an   *)
(* axis-parallel square; its centroid is computed from the geometry, or    *)
(* read from the two centroid properties cent_x, cent_y of the vector      *)
(* data.                                                                   *)
(***************************************************************************)
Fin(n) == [kind |-> "fin", v |-> n]
NaN == [kind |-> "nan", v |-> 0]

Abs(n) == IF n < 0 THEN -n ELSE n
Min2(a, b) == IF a < b THEN a ELSE b
Max2(a, b) == IF a > b THEN a ELSE b

\* np.linspace(start, stop, num), indexed from 0.
linspace(start, stop, num) ==
    [k \in 0..(num - 1) |-> start + (k * (stop - start)) \div (num - 1)]

\* rows, cols and cell_area as __set_grid leaves them: rows run from the top
\* fence down, cols from the left fence to the right.
set_grid(bounds, shape) ==
    LET up == linspace(bounds.bottom, bounds.top, shape[1] + 1)
        rows == [i \in 0..shape[1] |-> up[shape[1] - i]]
        cols == linspace(bounds.left, bounds.right, shape[2] + 1)
    IN  [rows |-> rows, cols |-> cols,
         cell_area |-> Abs((rows[0] - rows[1]) * (cols[1] - cols[0]))]

\* np.searchsorted with side='right'.
searchsorted_right(a, v) == Cardinality({i \in DOMAIN a : a[i] <= v})

\* np.searchsorted(a, v) with the default side='left': the number of
\* elements of the ascending array a that are less than v.
searchsorted(a, v) == Cardinality({i \in DOMAIN a : a[i] < v})

Neg(a) == [i \in DOMAIN a |-> -a[i]]

\* The grid of the tile that is rasterized, and the unit of the numbers.
TileShape == <<2, 2>>
TileBounds == [left |-> 0, right |-> 4, bottom |-> 0, top |-> 4]
Unit == set_grid(TileBounds, TileShape).cell_area
Fixed(n) == n * Unit

\* The centroid of the geometry of polygon g (GeoSeries.centroid).
centroid(g) == [x |-> (g.x0 + g.x1) \div 2, y |-> (g.y0 + g.y1) \div 2]

\* The data frame __grid_by_centroid returns: the rows of the vector whose
\* centroid lies in the grid, with the row and column index of its cell and
\* the count column, which always equals 1.
grid_by_centroid(in, g) ==
    LET cent_props == in.centroid_properties
        centroids_x(k) == IF cent_props # None THEN in.vector[k].cent_x
                          ELSE centroid(in.vector[k]).x
        centroids_y(k) == IF cent_props # None THEN in.vector[k].cent_y
                          ELSE centroid(in.vector[k]).y
        ci(k) == searchsorted(g.cols, centroids_x(k)) - 1
        ri(k) == searchsorted(Neg(g.rows), -centroids_y(k)) - 1
        kept == {k \in 1..Len(in.vector) :
                    /\ ri(k) >= 0
                    /\ ri(k) < in.shape[1]
                    /\ ci(k) >= 0
                    /\ ci(k) < in.shape[2]}
    IN  [columns |-> {"count"},
         rows |-> [k \in kept |-> [row |-> ri(k), col |-> ci(k), count |-> Fixed(1)]]]

\* Area of the part of polygon p inside the cell of row i and column j.
OverlapArea(p, g, i, j) ==
    LET w == Min2(p.x1, g.cols[j + 1]) - Max2(p.x0, g.cols[j])
        h == Min2(p.y1, g.rows[i]) - Max2(p.y0, g.rows[i + 1])
    IN  IF w > 0 /\ h > 0 THEN w * h ELSE 0

\* The data frame __grid_by_area returns: one row per polygon and cell that
\* overlap in a polygon.  ar and ar_p both name the column 'area_prop', so
\* the frame has no column 'area': the area is overwritten by area /
\* cell_area.
grid_by_area(in, g) ==
    LET frags == {f \in (1..Len(in.vector)) \X (0..(in.shape[1] - 1)) \X (0..(in.shape[2] - 1)) :
                    OverlapArea(in.vector[f[1]], g, f[2], f[3]) > 0}
    IN  [columns |-> {"area_prop"},
         rows |-> [f \in frags |->
                    [row |-> f[2], col |-> f[3],
                     area_prop |-> Fixed(OverlapArea(in.vector[f[1]], g, f[2], f[3]))
                                       \div g.cell_area]]]

RECURSIVE SumOver(_, _)
SumOver(S, f) ==
    IF S = {} THEN 0
    ELSE LET x == CHOOSE y \in S : TRUE IN f[x] + SumOver(S \ {x}, f)

\* The pandas aggregation `method` of the values f over the rows S of a group.
Aggregate(method, S, f) ==
    IF method = "sum" THEN SumOver(S, f)
    ELSE CHOOSE m \in {f[x] : x \in S} : \A x \in S : f[x] <= m    \* 'max'

\* self.__prop_keywords: the column a property keyword stands for.
prop_keywords(prop) ==
    IF prop = "centroids_per_pixel" THEN "count"
    ELSE IF prop = "area_within_pixel" THEN "area"
    ELSE IF prop = "area_per_pixel_area" THEN "area_prop"
    ELSE prop

\* d[e.name] = e for a dict kept as the sequence of its items: a key that
\* is in the dict keeps its place and gets the new value.
dict_set(d, e) ==
    IF \E n \in 1..Len(d) : d[n].name = e.name
    THEN [n \in 1..Len(d) |-> IF d[n].name = e.name THEN e ELSE d[n]]
    ELSE Append(d, e)

\* The loop over self.stats that fills the dict d of the given weight.
RECURSIVE agg_dict_into(_, _, _)
agg_dict_into(d, stats, weight) ==
    IF stats = <<>> THEN d
    ELSE LET stat == Head(stats)
             e == [name |-> stat.name, prop |-> prop_keywords(stat.property),
                   method |-> stat.aggregation_method]
         IN  agg_dict_into(IF stat.weight_by = weight THEN dict_set(d, e) ELSE d,
                           Tail(stats), weight)

\* The stats of the given weight: agg_dict_count or agg_dict_area as items
\* (name, column, method), keyed by the name of the statistic.
agg_dict(stats, weight) == agg_dict_into(<<>>, stats, weight)

\* frame.groupby([ri, ci], as_index=False).agg(**aggs): a data frame with one
\* row per cell that has rows in the frame and one column per aggregation.
groupby_agg(frame, aggs) ==
    IF \E n \in 1..Len(aggs) : aggs[n].prop \notin frame.columns
    THEN Raise("KeyError")
    ELSE LET keys == {<<frame.rows[x].row, frame.rows[x].col>> : x \in DOMAIN frame.rows}
             group(key) == {x \in DOMAIN frame.rows :
                                <<frame.rows[x].row, frame.rows[x].col>> = key}
             column(n) == [x \in DOMAIN frame.rows |-> frame.rows[x][aggs[n].prop]]
         IN  Ok([keys |-> keys,
                 cols |-> [n \in 1..Len(aggs) |-> aggs[n].name],
                 val |-> [key \in keys |->
                            [name \in {aggs[n].name : n \in 1..Len(aggs)} |->
                                LET n == CHOOSE m \in 1..Len(aggs) : aggs[m].name = name
                                IN  Fin(Aggregate(aggs[n].method, group(key), column(n)))]]])

Names(cols) == {cols[n] : n \in 1..Len(cols)}

\* stats_df.merge(area_stats_df, on=[ri, ci], how='outer'): NaN where a
\* cell is in one frame only.  A column name that both frames have gets the
\* suffix _x in the left frame and _y in the right one.
merge_outer(left, right) ==
    LET both == Names(left.cols) \cap Names(right.cols)
        lname(n) == IF left.cols[n] \in both THEN left.cols[n] \o "_x" ELSE left.cols[n]
        rname(n) == IF right.cols[n] \in both THEN right.cols[n] \o "_y" ELSE right.cols[n]
        lnames == {lname(n) : n \in 1..Len(left.cols)}
        rnames == {rname(n) : n \in 1..Len(right.cols)}
    IN  [keys |-> left.keys \cup right.keys,
         cols |-> [n \in 1..Len(left.cols) |-> lname(n)]
                    \o [n \in 1..Len(right.cols) |-> rname(n)],
         val |-> [key \in left.keys \cup right.keys |->
                    [name \in lnames \cup rnames |->
                        IF name \in lnames
                        THEN LET n == CHOOSE m \in 1..Len(left.cols) : lname(m) = name
                             IN  IF key \in left.keys THEN left.val[key][left.cols[n]] ELSE NaN
                        ELSE LET n == CHOOSE m \in 1..Len(right.cols) : rname(m) = name
                             IN  IF key \in right.keys THEN right.val[key][right.cols[n]]
                                 ELSE NaN]]]

\* The merged frame left as it is, NaN included.
fillna_omitted(df) == df

\* stats_df.fillna(0, inplace=True)
fillna(df) ==
    [df EXCEPT !.val = [key \in df.keys |->
                          [name \in Names(df.cols) |->
                              IF df.val[key][name].kind = "nan" THEN Fin(0)
                              ELSE df.val[key][name]]]]

\* The stats_df that __calculate_stats sets.
calculate_stats(in, g) ==
    LET agg_dict_count == agg_dict(in.stats, "count")
        agg_dict_area == agg_dict(in.stats, "area")
        count_stats_df == groupby_agg(grid_by_centroid(in, g), agg_dict_count)
        area_stats_df == groupby_agg(grid_by_area(in, g), agg_dict_area)
    IN  IF Len(agg_dict_count) > 0 /\ count_stats_df.exc # "none" THEN count_stats_df
        ELSE IF Len(agg_dict_area) > 0 /\ area_stats_df.exc # "none" THEN area_stats_df
        ELSE IF Len(agg_dict_count) > 0 /\ Len(agg_dict_area) > 0
             THEN Ok(fillna(merge_outer(count_stats_df.val, area_stats_df.val)))
        ELSE IF Len(agg_dict_count) > 0 THEN count_stats_df
        ELSE IF Len(agg_dict_area) > 0 THEN area_stats_df
        ELSE Ok(None)

Cells(shape) == (0..(shape[1] - 1)) \X (0..(shape[2] - 1))

\* __as_array: the column of the data frame as a grid, 0 where the frame has
\* no row for the cell.
as_array(df, values_column, shape) ==
    [cell \in Cells(shape) |->
        IF cell \in df.keys THEN df.val[cell][values_column] ELSE Fin(0)]

\* list.index(key), counted from 0.  The call raises ValueError when key is
\* absent; the length of the list stands for that.
index(list, key) ==
    IF \E n \in 1..Len(list) : list[n] = key
    THEN (CHOOSE n \in 1..Len(list) :
            list[n] = key /\ \A m \in 1..(n - 1) : list[m] # key) - 1
    ELSE Len(list)

\* The band index as it would be if the columns were written in the order
\* of the data frame.
band_index_by_column(stats_names_ordered, values_columns, n) == n

\* The band that column number n of the data frame is written to.
band_index(stats_names_ordered, values_columns, n) ==
    index(stats_names_ordered, values_columns[n]) + 1

\* The bands of the raster __create_raster_from_stats_df writes: band b holds
\* the column whose band index is b; a band no column is written to keeps
\* its zeros and has no description.  The first column whose name is not
\* the name of a statistic raises ValueError (list.index), the first whose
\* band index is above the number of bands IndexError (dataset.write).
create_raster_from_stats_df(df, in) ==
    IF df = None THEN Raise("AttributeError")
    ELSE LET values_columns == df.cols
             stats_names_ordered == [i \in 1..Len(in.stats) |-> in.stats[i].name]
             count == Len(values_columns)
             writers(b) == {n \in 1..count :
                              band_index(stats_names_ordered, values_columns, n) = b}
             failing == {n \in 1..count :
                            band_index(stats_names_ordered, values_columns, n) > count}
             first == CHOOSE n \in failing : \A m \in failing : n <= m
         IN  IF failing # {}
             THEN IF index(stats_names_ordered, values_columns[first]) = Len(stats_names_ordered)
                  THEN Raise("ValueError")
                  ELSE Raise("IndexError")
             ELSE Ok([b \in 1..count |->
                        IF writers(b) = {}
                        THEN [description |-> "", data |-> [cell \in Cells(in.shape) |-> Fin(0)]]
                        ELSE LET n == CHOOSE m \in writers(b) : \A o \in writers(b) : o <= m
                             IN  [description |-> values_columns[n],
                                  data |-> as_array(df, values_columns[n], in.shape)]])

\* Raster.from_vector: the bands of the raster, or the exception raised.
from_vector(in) ==
    LET g == set_grid(in.bounds, in.shape)
        stats_df == calculate_stats(in, g)
    IN  IF stats_df.exc # "none" THEN stats_df
        ELSE create_raster_from_stats_df(stats_df.val, in)

(***************************************************************************)
(* Inputs of from_vector.                                                  *)
(***************************************************************************)
\* Squares as wide as a cell, at every integer offset around the tile.  The
\* centroid properties of a polygon name the centre of the top left cell;
\* on the diagonal offsets there are also polygons whose properties name the
\* centre of the bottom right cell.
PolySide == set_grid(TileBounds, TileShape).cols[1] - set_grid(TileBounds, TileShape).cols[0]
CentProps == {<<1, 3>>, <<3, 1>>}
Polygons ==
    {p \in {[x0 |-> x, x1 |-> x + PolySide, y0 |-> y, y1 |-> y + PolySide,
             cent_x |-> c[1], cent_y |-> c[2]] :
                x \in (TileBounds.left - 1)..(TileBounds.right - 1),
                y \in (TileBounds.bottom - 1)..(TileBounds.top - 1),
                c \in CentProps} :
        p.cent_x = 1 \/ p.x0 = p.y0}

\* The rows of a vector in one fixed order: the order of the rows of a data
\* frame does not change what groupby and the aggregations return.
Rank(p) == (p.x0 * 100 + p.y0) * 100 + p.cent_x

Vectors(cent_props) ==
    UNION {{v \in [1..n -> Polygons] :
                /\ \A k \in 1..(n - 1) : Rank(v[k]) <= Rank(v[k + 1])
                /\ (cent_props = None) => \A k \in 1..n : v[k].cent_x = 1}
           : n \in 1..MaxPolys}

StatNames == <<"s1", "s2">>
StatOptions ==
    {[weight_by |-> "count", property |-> "centroids_per_pixel", aggregation_method |-> "sum"],
     [weight_by |-> "count", property |-> "centroids_per_pixel", aggregation_method |-> "max"],
     [weight_by |-> "area", property |-> "area_per_pixel_area", aggregation_method |-> "sum"],
     [weight_by |-> "area", property |-> "area_within_pixel", aggregation_method |-> "sum"]}

StatLists ==
    UNION {{[i \in 1..n |->
                [name |-> StatNames[i], weight_by |-> o[i].weight_by,
                 property |-> o[i].property,
                 aggregation_method |-> o[i].aggregation_method]] :
                o \in [1..n -> StatOptions]}
           : n \in 1..Len(StatNames)}

Pending == [exc |-> "pending", val |-> None]

IdleCM == statistics = <<>> /\ cm_pre = <<>> /\ cm_last = NoCall

InitFV ==
    /\ IdleCM
    /\ IdleWI
    /\ IdleRT
    /\ IdlePV
    /\ IdleFR
    /\ IdleCF
    /\ \E cent_props \in {None, <<"cent_x", "cent_y">>} :
       \E vector \in Vectors(cent_props), stats \in StatLists :
          fv_in = [vector |-> vector, centroid_properties |-> cent_props,
                   bounds |-> TileBounds, shape |-> TileShape, stats |-> stats]
    /\ fv_out = Pending

FromVector ==
    /\ fv_out = Pending
    /\ fv_out' = from_vector(fv_in)
    /\ UNCHANGED <<fv_in, cm_vars, wi_vars, rt_vars, pv_vars, fr_vars, cf_vars>>

NextFV == FromVector

SpecFV == InitFV /\ [][NextFV]_vars

(***************************************************************************)
(* Claims about Raster.from_vector, checked under SpecFV.                  *)
(***************************************************************************)
FVGrid == set_grid(fv_in.bounds, fv_in.shape)

\* The centroid from_vector uses for row k of the vector.
CentroidOf(k) ==
    IF fv_in.centroid_properties # None
    THEN [x |-> fv_in.vector[k].cent_x, y |-> fv_in.vector[k].cent_y]
    ELSE centroid(fv_in.vector[k])

\* The cells are half open: a cell owns its right and its bottom edge.
InCell(pt, cell) ==
    /\ FVGrid.cols[cell[2]] < pt.x /\ pt.x <= FVGrid.cols[cell[2] + 1]
    /\ FVGrid.rows[cell[1] + 1] <= pt.y /\ pt.y < FVGrid.rows[cell[1]]

InTile(pt) ==
    /\ fv_in.bounds.left < pt.x /\ pt.x <= fv_in.bounds.right
    /\ fv_in.bounds.bottom <= pt.y /\ pt.y < fv_in.bounds.top

CentroidsIn(cell) == {k \in 1..Len(fv_in.vector) : InCell(CentroidOf(k), cell)}
CentroidsInTile == {k \in 1..Len(fv_in.vector) : InTile(CentroidOf(k))}
Covering(cell) ==
    {k \in 1..Len(fv_in.vector) : OverlapArea(fv_in.vector[k], FVGrid, cell[1], cell[2]) > 0}

AllCells == Cells(fv_in.shape)

BandSum(data) == SumOver(AllCells, [cell \in AllCells |-> data[cell].v])

IsCountStat(stat) ==
    /\ stat.weight_by = "count"
    /\ stat.property = "centroids_per_pixel"
    /\ stat.aggregation_method = "sum"

Returned == fv_out.exc = "none"

\* The band of the returned raster that is described by the name of stat.
BandsOf(stat) == {b \in DOMAIN fv_out.val : fv_out.val[b].description = stat.name}

\* C6: in the band of a count-weighted statistic (centroids_per_pixel, sum)
\* every polygon whose centroid lies in the tile adds 1 to exactly one cell,
\* the cell that holds the centroid, and no other polygon adds anything: the
\* band sums to the number of polygons whose centroid lies in the tile.
C6_CountConservation ==
    Returned =>
        \A i \in 1..Len(fv_in.stats) :
            IsCountStat(fv_in.stats[i]) =>
                /\ BandsOf(fv_in.stats[i]) # {}
                /\ \A b \in BandsOf(fv_in.stats[i]) :
                    /\ \A cell \in AllCells :
                          fv_out.val[b].data[cell] = Fin(Fixed(Cardinality(CentroidsIn(cell))))
                    /\ BandSum(fv_out.val[b].data) = Fixed(Cardinality(CentroidsInTile))
                /\ \A k \in CentroidsInTile :
                      Cardinality({cell \in AllCells : k \in CentroidsIn(cell)}) = 1
                /\ \A k \in (1..Len(fv_in.vector)) \ CentroidsInTile :
                      \A cell \in AllCells : k \notin CentroidsIn(cell)

\* Witness of C6: two polygons, one with its centroid on a fence between
\* two columns of the grid, one with its centroid outside the tile; the
\* count band sums to 1.
C6_Witness ==
    /\ Returned
    /\ Len(fv_in.vector) = 2
    /\ \E k \in CentroidsInTile : CentroidOf(k).x = FVGrid.cols[1]
    /\ Cardinality(CentroidsInTile) = 1
    /\ \E i \in 1..Len(fv_in.stats) :
          /\ IsCountStat(fv_in.stats[i])
          /\ \E b \in BandsOf(fv_in.stats[i]) : BandSum(fv_out.val[b].data) = Fixed(1)

BothWeights ==
    /\ \E i \in 1..Len(fv_in.stats) : fv_in.stats[i].weight_by = "count"
    /\ \E i \in 1..Len(fv_in.stats) : fv_in.stats[i].weight_by = "area"

\* C7: with count- and area-weighted statistics together, every cell of
\* every band holds a number: 0 in the count bands where no centroid lies
\* in the cell, 0 in the area bands where no polygon covers the cell, and
\* never NaN.
C7_NoCellIsNoData ==
    (Returned /\ BothWeights) =>
        \A b \in DOMAIN fv_out.val, cell \in AllCells :
            /\ fv_out.val[b].data[cell].kind = "fin"
            /\ \A i \in 1..Len(fv_in.stats) :
                  (fv_in.stats[i].name = fv_out.val[b].description) =>
                      /\ (fv_in.stats[i].weight_by = "count" /\ CentroidsIn(cell) = {})
                            => fv_out.val[b].data[cell] = Fin(0)
                      /\ (fv_in.stats[i].weight_by = "area" /\ Covering(cell) = {})
                            => fv_out.val[b].data[cell] = Fin(0)

\* Witness of C7: a raster of both weights with a cell that only the count
\* result has, a cell that only the area result has and a cell neither has.
C7_Witness ==
    /\ Returned
    /\ BothWeights
    /\ \E cell \in AllCells : CentroidsIn(cell) # {} /\ Covering(cell) = {}
    /\ \E cell \in AllCells : CentroidsIn(cell) = {} /\ Covering(cell) # {}
    /\ \E cell \in AllCells : CentroidsIn(cell) = {} /\ Covering(cell) = {}

\* The value statistic stat has in a cell, from the polygons themselves.
ExpectedValue(stat, cell) ==
    IF stat.weight_by = "count"
    THEN IF stat.aggregation_method = "sum"
         THEN Fin(Fixed(Cardinality(CentroidsIn(cell))))
         ELSE Fin(IF CentroidsIn(cell) = {} THEN 0 ELSE Fixed(1))
    ELSE Fin(SumOver(Covering(cell),
                     [k \in Covering(cell) |->
                        Fixed(OverlapArea(fv_in.vector[k], FVGrid, cell[1], cell[2]))
                            \div FVGrid.cell_area]))

\* C8: the returned raster has one band per configured statistic, and band
\* i has the name and the values of the i-th statistic of the configuration.
C8_BandPerStatistic ==
    Returned =>
        /\ DOMAIN fv_out.val = 1..Len(fv_in.stats)
        /\ \A i \in 1..Len(fv_in.stats) :
              /\ fv_out.val[i].description = fv_in.stats[i].name
              /\ \A cell \in AllCells :
                    fv_out.val[i].data[cell] = ExpectedValue(fv_in.stats[i], cell)

\* Witness of C8: the area-weighted statistic is configured before the
\* count-weighted one, and the two bands differ.
C8_Witness ==
    /\ Returned
    /\ Len(fv_in.stats) = 2
    /\ fv_in.stats[1].weight_by = "area"
    /\ fv_in.stats[2].weight_by = "count"
    /\ fv_out.val[1].data # fv_out.val[2].data
    /\ \E cell \in AllCells : fv_out.val[2].data[cell] = Fin(Fixed(2))

(***************************************************************************)
(* Palette.get_rgba_list and WebImage                                      *)
(*                                                                         *)
(* A pixel is a float: finite, NaN, +inf or -inf.  min_val and max_val are *)
(* integers here, and the rescaling (x - min_val) * (255 / (max_val -      *)
(* min_val)) is computed exactly, as it is in floating point for the       *)
(* ranges of the model.  A colour of the gradient is named by the index    *)
(* it has in the list: it is the colour get_color(index / pal_size).       *)
(***************************************************************************)
PosInf == [kind |-> "inf", v |-> 0]
NegInf == [kind |-> "-inf", v |-> 0]

PalSize == 256         \* pal_size of get_rgba_list
ScaleTop == 255        \* the index max_val is rescaled to
NoDataIndex == 256     \* the index of a no-data pixel

GradientColor(i) == [kind |-> "gradient", at |-> i]
NoDataColor == [kind |-> "nodata", at |-> 0]

\* Palette.get_rgba_list: pal_size colours of the gradient, then the nodata
\* color; indexed from 0.
get_rgba_list ==
    [i \in 0..PalSize |-> IF i < PalSize THEN GradientColor(i) ELSE NoDataColor]

\* rgba_list[i] for a Python list: a negative index counts from the end.
list_item(list, i) ==
    LET n == Cardinality(DOMAIN list) IN
    IF i >= 0 /\ i < n THEN Ok(list[i])
    ELSE IF i < 0 /\ i >= -n THEN Ok(list[n + i])
    ELSE Raise("IndexError")

\* Comparisons of numpy floats: every comparison with NaN is false.
FloatEq(x, y) == x.kind # "nan" /\ x.kind = y.kind /\ x.v = y.v
FloatLt(x, n) == x.kind = "-inf" \/ (x.kind = "fin" /\ x.v < n)
FloatGt(x, n) == x.kind = "inf" \/ (x.kind = "fin" /\ x.v > n)
isfinite(x) == x.kind = "fin"

\* a / b rounded to the nearest integer, halves upwards (a >= 0, b > 0).
RoundDiv(a, b) == (2 * a + b) \div (2 * b)

\* astype(int) of the finite quotient a / b: the fraction is cut off.
TruncDiv(a, b) ==
    IF (a >= 0) = (b > 0) THEN Abs(a) \div Abs(b) ELSE -(Abs(a) \div Abs(b))

\* What astype(int) makes of NaN is not defined: numpy gives the most
\* negative integer on some platforms (a value far below every list index
\* stands for it) and 0 on others.
NanCasts == {-(2 ^ 20), 0}

\* WebImage.__init__ up to the call of to_image: min_val and max_val, taken
\* from the finite pixels where they are not given.  from_numpy tells that
\* max_val - min_val is a numpy float, not a Python number.
WebImage_init(in) ==
    LET cells == DOMAIN in.image_data
        data_for_calcs == {in.image_data[c].v : c \in {d \in cells : isfinite(in.image_data[d])}}
        nanmin == CHOOSE m \in data_for_calcs : \A x \in data_for_calcs : m <= x
        nanmax == CHOOSE m \in data_for_calcs : \A x \in data_for_calcs : m >= x
        computed == in.min_val = None \/ in.max_val = None
    IN  IF computed /\ data_for_calcs = {} THEN Raise("ValueError")
        ELSE Ok([min_val |-> IF in.min_val = None THEN nanmin ELSE in.min_val[1],
                 max_val |-> IF in.max_val = None THEN nanmax ELSE in.max_val[1],
                 from_numpy |-> computed])

\* WebImage.to_image: the indices (image_data_scaled after astype(int)) and
\* the colours (rgba_data) of the pixels.
to_image(self, in, nan_cast) ==
    LET min_val == self.min_val
        max_val == self.max_val
        cells == DOMAIN in.image_data
        no_data_mask(c) ==
            in.nodata_val # None /\ FloatEq(in.image_data[c], in.nodata_val[1])
        masked(c) == IF no_data_mask(c) THEN NaN ELSE in.image_data[c]
        raised(c) == IF FloatLt(masked(c), min_val) THEN Fin(min_val) ELSE masked(c)
        clamped(c) == IF FloatGt(raised(c), max_val) THEN Fin(max_val) ELSE raised(c)
        image_data_scaled ==
            [c \in cells |->
                IF no_data_mask(c) THEN NoDataIndex
                ELSE IF clamped(c).kind = "nan" \/ max_val = min_val THEN nan_cast
                ELSE TruncDiv((clamped(c).v - min_val) * ScaleTop, max_val - min_val)]
        rgba_data == [c \in cells |-> list_item(get_rgba_list, image_data_scaled[c])]
    IN  IF max_val = min_val /\ ~self.from_numpy
        THEN [exc |-> "ZeroDivisionError", min_val |-> min_val, max_val |-> max_val,
              image_data_scaled |-> <<>>, rgba_data |-> <<>>]
        ELSE IF \E c \in cells : rgba_data[c].exc # "none"
        THEN [exc |-> "IndexError", min_val |-> min_val, max_val |-> max_val,
              image_data_scaled |-> image_data_scaled, rgba_data |-> <<>>]
        ELSE [exc |-> "none", min_val |-> min_val, max_val |-> max_val,
              image_data_scaled |-> image_data_scaled,
              rgba_data |-> [c \in cells |-> rgba_data[c].val]]

\* WebImage(image_data, palette, min_val, max_val, nodata_val)
WebImage(in, nan_cast) ==
    LET self == WebImage_init(in) IN
    IF self.exc # "none"
    THEN [exc |-> self.exc, min_val |-> 0, max_val |-> 0,
          image_data_scaled |-> <<>>, rgba_data |-> <<>>]
    ELSE to_image(self.val, in, nan_cast)

(***************************************************************************)
(* Inputs of WebImage.                                                     *)
(***************************************************************************)
PixelValues == {Fin(v) : v \in 0..MaxPixel} \cup {NaN, PosInf, NegInf}
ImageShapes == {sh \in (1..MaxCells) \X (1..MaxCells) : sh[1] * sh[2] <= MaxCells}
Images == UNION {[Cells(sh) -> PixelValues] : sh \in ImageShapes}
OptPixels == {None} \cup {Some(v) : v \in 0..MaxPixel}
NoDataVals == {None, Some(Fin(0)), Some(NaN), Some(PosInf)}

InitWI ==
    /\ IdleCM
    /\ IdleFV
    /\ IdleRT
    /\ IdlePV
    /\ IdleFR
    /\ IdleCF
    /\ \E image_data \in Images, min_val \in OptPixels, max_val \in OptPixels,
          nodata_val \in NoDataVals :
          wi_in = [image_data |-> image_data, min_val |-> min_val,
                   max_val |-> max_val, nodata_val |-> nodata_val]
    /\ wi_out = Pending

Render ==
    /\ wi_out = Pending
    /\ \E nan_cast \in NanCasts : wi_out' = WebImage(wi_in, nan_cast)
    /\ UNCHANGED <<wi_in, cm_vars, fv_vars, rt_vars, pv_vars, fr_vars, cf_vars>>

NextWI == Render

SpecWI == InitWI /\ [][NextWI]_vars

(***************************************************************************)
(* Claims about WebImage, checked under SpecWI.                            *)
(***************************************************************************)
Scaled == wi_out.exc \in {"none", "IndexError"}

\* The pixels that are finite and not equal to nodata_val.
DataCells ==
    {c \in DOMAIN wi_in.image_data :
        /\ isfinite(wi_in.image_data[c])
        /\ wi_in.nodata_val # Some(wi_in.image_data[c])}

Clamp(v, lo, hi) == IF v < lo THEN lo ELSE IF v > hi THEN hi ELSE v

\* 255 * (clamp(v, min_val, max_val) - min_val), the numerator of the
\* rescaled value of pixel c; the denominator is max_val - min_val.
ScaledNum(c) ==
    ScaleTop * (Clamp(wi_in.image_data[c].v, wi_out.min_val, wi_out.max_val) - wi_out.min_val)

ScaledDen == wi_out.max_val - wi_out.min_val

C10_NonFiniteIsNoData ==
    (/\ wi_out # Pending
     /\ wi_in.min_val # None /\ wi_in.max_val # None
     /\ wi_in.min_val[1] < wi_in.max_val[1]) =>
        /\ wi_out.exc = "none"
        /\ \A c \in DOMAIN wi_in.image_data :
              ~isfinite(wi_in.image_data[c]) =>
                  /\ wi_out.image_data_scaled[c] = NoDataIndex
                  /\ wi_out.rgba_data[c] = NoDataColor

\* C11: with min_val = max_val the rendering completes, nothing is divided
\* by zero, and every finite pixel that is not no-data has the index 0.
C11_DegenerateRange ==
    (/\ wi_out # Pending
     /\ wi_in.min_val # None
     /\ wi_in.min_val = wi_in.max_val) =>
        /\ wi_out.exc = "none"
        /\ \A c \in DataCells : wi_out.image_data_scaled[c] = 0

\* The first and the last colour of the palette: the colours of the
\* gradient at 0 and at 1, get_color(0) and get_color(1).
FirstColor == GradientColor(0)
LastColor == GradientColor(PalSize)

\* C12: with min_val < max_val a rendered pixel that is at least max_val
\* has the last colour of the palette, and one that is at most min_val the
\* first colour.
C12_ExtremesGetEndColors ==
    (wi_out.exc = "none" /\ wi_out.min_val < wi_out.max_val) =>
        \A c \in DataCells :
            /\ (wi_in.image_data[c].v >= wi_out.max_val) => wi_out.rgba_data[c] = LastColor
            /\ (wi_in.image_data[c].v <= wi_out.min_val) => wi_out.rgba_data[c] = FirstColor

\* The pixels that hold the value nodata_val.
NoDataCells == {c \in DOMAIN wi_in.image_data : wi_in.nodata_val = Some(wi_in.image_data[c])}

\* C13: the list of colours has 257 entries, the last of them the nodata
\* color; and a grid whose pixels all hold nodata_val is rendered, whatever
\* its shape, with every pixel the nodata color.
C13_AllNoDataUniform ==
    /\ Cardinality(DOMAIN get_rgba_list) = PalSize + 1
    /\ get_rgba_list[NoDataIndex] = NoDataColor
    /\ (wi_out # Pending /\ NoDataCells = DOMAIN wi_in.image_data) =>
          /\ wi_out.exc = "none"
          /\ \A c \in DOMAIN wi_in.image_data :
                /\ wi_out.image_data_scaled[c] = NoDataIndex
                /\ wi_out.rgba_data[c] = NoDataColor

(***************************************************************************)
(* Raster.from_vector with a configuration in which two statistics have    *)
(* the same name.                                                          *)
(***************************************************************************)
DuplicateStatLists ==
    {[i \in 1..2 |->
        [name |-> StatNames[1], weight_by |-> o[i].weight_by,
         property |-> o[i].property,
         aggregation_method |-> o[i].aggregation_method]] :
        o \in [1..2 -> StatOptions]}

InitDN ==
    /\ IdleCM
    /\ IdleWI
    /\ IdleRT
    /\ IdlePV
    /\ IdleFR
    /\ IdleCF
    /\ \E cent_props \in {None, <<"cent_x", "cent_y">>} :
       \E vector \in Vectors(cent_props), stats \in DuplicateStatLists :
          fv_in = [vector |-> vector, centroid_properties |-> cent_props,
                   bounds |-> TileBounds, shape |-> TileShape, stats |-> stats]
    /\ fv_out = Pending

SpecDN == InitDN /\ [][NextFV]_vars

HasDuplicateNames ==
    \E i, j \in 1..Len(fv_in.stats) : i # j /\ fv_in.stats[i].name = fv_in.stats[j].name

\* C18: from_vector with two statistics of the same name ends in an error
\* and returns no raster.
C18_DuplicateNamesRejected ==
    (fv_out # Pending /\ HasDuplicateNames) => fv_out.exc # "none"

(***************************************************************************)
(* RasterTiler (src/raster.py)                                             *)
(*                                                                         *)
(* A tile is a record of x, y and z.  The pixel values of a tile are a     *)
(* data frame with one row per pixel that has a value: a function from     *)
(* the cells <<pixel_row, pixel_col>> that have a row to frac_covered,     *)
(* carried in units of 1/FracUnit so that the means taken here are exact.  *)
(* A staged input file is given by its tile and the pixel values that      *)
(* get_pixel_values_from_gdf computes from it, or is a file that cannot    *)
(* be read.                                                                *)
(***************************************************************************)
FracUnit == 24
FracOne == FracUnit
FracHalf == FracUnit \div 2

Tile(x, y, z) == [x |-> x, y |-> y, z |-> z]

\* get_child_tiles: the four tiles of the next zoom level, x outermost.
get_child_tiles(tile) ==
    <<Tile(2 * tile.x, 2 * tile.y, tile.z + 1),
      Tile(2 * tile.x, 2 * tile.y + 1, tile.z + 1),
      Tile(2 * tile.x + 1, 2 * tile.y, tile.z + 1),
      Tile(2 * tile.x + 1, 2 * tile.y + 1, tile.z + 1)>>

\* get_parent_tiles: the tiles of zoom - 1 over the bounding box of the tile.
get_parent_tiles_at_x(tile) == {Tile(tile.x, tile.y \div 2, tile.z - 1)}

get_parent_tiles(tile) == {Tile(tile.x \div 2, tile.y \div 2, tile.z - 1)}

\* The cell of the composite, and of the parent after // 2, that the pixel
\* cell of child_tile goes to.
composite_cell(child_tile, cell, width, height) ==
    <<cell[1] + (IF child_tile.y % 2 # 0 THEN height ELSE 0),
      cell[2] + (IF child_tile.x % 2 # 0 THEN width ELSE 0)>>

downsampled_cell(cell) == <<cell[1] \div 2, cell[2] \div 2>>

\* The children, by their place in child_tiles, that have a pixel value file.
children_found(child_tiles, files) == {k \in 1..4 : child_tiles[k] \in DOMAIN files}

\* The rows of the concatenated frame: <<child, pixel_row, pixel_col>> for
\* every row of the file of every child found.
composite_rows(child_tiles, files, width, height) ==
    {r \in children_found(child_tiles, files) \X (0..(height - 1)) \X (0..(width - 1)) :
        <<r[2], r[3]>> \in DOMAIN files[child_tiles[r[1]]]}

\* The cell of the parent that row r of the concatenated frame is grouped in.
parent_cell(child_tiles, r, width, height) ==
    downsampled_cell(composite_cell(child_tiles[r[1]], <<r[2], r[3]>>, width, height))

\* groupby(...).agg({'frac_covered': 'mean'}): the mean of the rows of the
\* group.
mean(S, f) == SumOver(S, f) \div Cardinality(S)

\* get_pixel_values_from_children(tile), files being the pixel value files
\* on disk by tile.  What it returns is Some(data frame), to tell a frame
\* without rows from None.
get_pixel_values_from_children(tile, files, width, height) ==
    LET child_tiles == get_child_tiles(tile)
        rows == composite_rows(child_tiles, files, width, height)
        cell_of(r) == parent_cell(child_tiles, r, width, height)
        frac_covered == [r \in rows |-> files[child_tiles[r[1]]][<<r[2], r[3]>>]]
        cells == {cell_of(r) : r \in rows}
    IN  IF children_found(child_tiles, files) = {} THEN Raise("TypeError")
        ELSE Ok(Some([cell \in cells |->
                        mean({r \in rows : cell_of(r) = cell}, frac_covered)]))

Uint8Top == 255

\* to_unit8(values, 0, 1) of one value.
to_unit8(v) ==
    LET clipped == IF v > FracUnit THEN FracUnit ELSE IF v < 0 THEN 0 ELSE v
    IN  (clipped * Uint8Top) \div FracUnit

\* array_from_df: the value of a pixel of a frame, 0 where it has no row.
array_from_df(df, cell) == IF cell \in DOMAIN df THEN df[cell] ELSE 0

\* create_image: the palette indices of the pixels.
create_image(pixel_values, width, height) ==
    LET pixel_val == [cell \in DOMAIN pixel_values |-> to_unit8(pixel_values[cell])]
    IN  [cell \in Cells(<<height, width>>) |-> array_from_df(pixel_val, cell)]

\* save_tile: the pixel value file and the image of the tile on disk.
save_tile(disk, pixel_values, tile, width, height) ==
    [t \in DOMAIN disk \cup {tile} |->
        IF t = tile
        THEN [pixel_values |-> pixel_values,
              image |-> create_image(pixel_values, width, height)]
        ELSE disk[t]]

\* The pixel value files on disk.
pixel_value_files(disk) == [t \in DOMAIN disk |-> disk[t].pixel_values]

next_zoom_up(current_zoom) == current_zoom + 1

next_zoom(current_zoom) == current_zoom - 1

(***************************************************************************)
(* make_tiles, one step per tile.  rt_in is the tiler as constructed with  *)
(* its staged input files by tile; rt is the running build: where it is,   *)
(* the zoom level, the tiles still to make at this level (in the arbitrary *)
(* order of os.walk and of list(set(...))), the tiles created at this      *)
(* level, the parent tiles to make and the exception that ended it;        *)
(* rt_disk is the output directory by tile.                                *)
(***************************************************************************)
MaxZoom == 2
MaxInputs == 2

\* A staged file that cannot be read or has no tile, and one that is read.
Unreadable == [readable |-> FALSE, pixel_values |-> <<>>]
Readable(pixel_values) == [readable |-> TRUE, pixel_values |-> pixel_values]

LeafXs == 0..3
LeafYs == 0..1
TilerSize == 1

LeafFrames == [{} -> {FracOne}] \cup [{<<0, 0>>} -> {FracOne}]

StagedInputs ==
    LET tiles == {Tile(x, y, MaxZoom) : x \in LeafXs, y \in LeafYs}
    IN  UNION {[T -> {Readable(f) : f \in LeafFrames} \cup {Unreadable}] :
                 T \in {S \in SUBSET tiles : Cardinality(S) <= MaxInputs}}

Tilers ==
    {[inputs |-> i, max_zoom |-> MaxZoom, min_zoom |-> lo,
      width |-> TilerSize, height |-> TilerSize] :
        i \in StagedInputs, lo \in 0..MaxZoom}

InitRT ==
    /\ rt_in \in Tilers
    /\ rt = [pc |-> "call", current_zoom |-> rt_in.max_zoom, todo |-> {},
             tile_created |-> {}, parent_tiles_to_make |-> {}, exc |-> "none"]
    /\ rt_disk = <<>>
    /\ IdleCM /\ IdleFV /\ IdleWI /\ IdlePV /\ IdleFR /\ IdleCF

\* Entry of make_tiles for a level: the tiles to make, from the input paths
\* at max_zoom and from parent_tiles_to_make below it.
EnterLevel ==
    /\ rt.pc = "call"
    /\ IF rt.current_zoom = rt_in.max_zoom
       THEN IF DOMAIN rt_in.inputs = {}
            THEN rt' = [rt EXCEPT !.pc = "raised", !.exc = "IndexError"]
            ELSE rt' = [rt EXCEPT !.pc = "loop", !.tile_created = {},
                                  !.todo = DOMAIN rt_in.inputs]
       ELSE rt' = [rt EXCEPT !.pc = "loop", !.tile_created = {},
                             !.todo = rt.parent_tiles_to_make]
    /\ UNCHANGED <<rt_in, rt_disk, cm_vars, fv_vars, wi_vars, pv_vars, fr_vars, cf_vars>>

\* One turn of the loop over the input paths.
MakeLeafTile ==
    /\ rt.pc = "loop"
    /\ rt.current_zoom = rt_in.max_zoom
    /\ \E tile \in rt.todo :
        IF ~rt_in.inputs[tile].readable
        THEN /\ rt' = [rt EXCEPT !.pc = "raised", !.exc = "Exception"]
             /\ UNCHANGED rt_disk
        ELSE /\ rt_disk' = save_tile(rt_disk, rt_in.inputs[tile].pixel_values, tile,
                                     rt_in.width, rt_in.height)
             /\ rt' = [rt EXCEPT !.todo = @ \ {tile},
                                 !.tile_created = @ \cup {tile}]
    /\ UNCHANGED <<rt_in, cm_vars, fv_vars, wi_vars, pv_vars, fr_vars, cf_vars>>

\* One turn of the loop over parent_tiles_to_make.
MakeCompositeTile ==
    /\ rt.pc = "loop"
    /\ rt.current_zoom # rt_in.max_zoom
    /\ \E tile \in rt.todo :
        LET pixel_values == get_pixel_values_from_children(
                                tile, pixel_value_files(rt_disk),
                                rt_in.width, rt_in.height)
        IN  IF pixel_values.exc # "none"
            THEN /\ rt' = [rt EXCEPT !.pc = "raised", !.exc = pixel_values.exc]
                 /\ UNCHANGED rt_disk
            ELSE IF pixel_values.val # None
            THEN /\ rt_disk' = save_tile(rt_disk, pixel_values.val[1], tile,
                                         rt_in.width, rt_in.height)
                 /\ rt' = [rt EXCEPT !.todo = @ \ {tile},
                                     !.tile_created = @ \cup {tile}]
            ELSE /\ rt' = [rt EXCEPT !.todo = @ \ {tile}]
                 /\ UNCHANGED rt_disk
    /\ UNCHANGED <<rt_in, cm_vars, fv_vars, wi_vars, pv_vars, fr_vars, cf_vars>>

goes_on_to_zero(next, min_zoom) == next >= 0

\* Whether make_tiles calls itself for the level next.
goes_on(next, min_zoom) == (next >= min_zoom) /\ (next >= 0)

\* After the loop: the parents of the tiles created, and the next level.
LeaveLevel ==
    /\ rt.pc = "loop"
    /\ rt.todo = {}
    /\ LET next == next_zoom(rt.current_zoom)
       IN  IF goes_on(next, rt_in.min_zoom)
           THEN rt' = [rt EXCEPT
                        !.pc = "call",
                        !.parent_tiles_to_make =
                            UNION {get_parent_tiles(t) : t \in rt.tile_created},
                        !.current_zoom = next]
           ELSE rt' = [rt EXCEPT !.pc = "done", !.parent_tiles_to_make = {}]
    /\ UNCHANGED <<rt_in, rt_disk, cm_vars, fv_vars, wi_vars, pv_vars, fr_vars, cf_vars>>

NextRT == EnterLevel \/ MakeLeafTile \/ MakeCompositeTile \/ LeaveLevel

SpecRT == InitRT /\ [][NextRT]_vars

\* C14: during make_tiles the zoom level being processed never increases,
\* a tile that is saved is of the level being processed, and when it is
\* saved no tile of a coarser level is on disk yet: every tile of level
\* z + 1 the build creates is saved before any tile of level z.
C14_LevelByLevel ==
    [][/\ rt'.current_zoom <= rt.current_zoom
       /\ \A t \in DOMAIN rt_disk' :
            (t \notin DOMAIN rt_disk \/ rt_disk'[t] # rt_disk[t]) =>
                /\ t.z = rt.current_zoom
                /\ \A u \in DOMAIN rt_disk : u.z >= t.z]_vars

C14_Witness ==
    /\ rt.pc = "done"
    /\ \E t, u \in DOMAIN rt_disk :
        t.z = rt_in.max_zoom /\ u.z = rt_in.min_zoom /\ u.z + 1 < t.z

\* The staged files whose tile fails to build.
FailingTiles == {t \in DOMAIN rt_in.inputs : ~rt_in.inputs[t].readable}

\* C16: a tile that fails does not abort the build: when make_tiles has
\* ended on staged input it has ended without an exception, and the tile
\* of every staged file that can be read has been saved.
C16_FailureDoesNotAbort ==
    (rt.pc \in {"done", "raised"} /\ DOMAIN rt_in.inputs # {}) =>
        /\ rt.pc = "done"
        /\ rt.exc = "none"
        /\ \A t \in DOMAIN rt_in.inputs \ FailingTiles : t \in DOMAIN rt_disk

(***************************************************************************)
(* get_pixel_values_from_children called on a tile, with any of the pixel  *)
(* value files of its four children on disk.  pv_in is the call: the tile, *)
(* the files by child tile and the tile size; pv_out is what the call      *)
(* returns or raises.                                                      *)
(***************************************************************************)
MaxStored == 2

CompositeSize == 2
CompositeTiles == {Tile(0, 0, 0), Tile(1, 0, 1)}

\* The files of the children T of a tile, the rows stored in them being
\* given by frac_covered, a function of <<child tile, cell>>.
FilesOf(T, frac_covered) ==
    [t \in T |->
        [cell \in {c \in Cells(<<CompositeSize, CompositeSize>>) :
                     <<t, c>> \in DOMAIN frac_covered} |-> frac_covered[<<t, cell>>]]]

ChildFiles(tile) ==
    LET children == {get_child_tiles(tile)[k] : k \in 1..4}
        places == children \X Cells(<<CompositeSize, CompositeSize>>)
        stored == UNION {[P -> {FracHalf, FracOne}] :
                           P \in {Q \in SUBSET places : Cardinality(Q) <= MaxStored}}
    IN  UNION {{FilesOf(T, f) : T \in {U \in SUBSET children :
                                        \A q \in DOMAIN f : q[1] \in U}} :
                 f \in stored}

InitPV ==
    /\ \E t \in CompositeTiles :
        \E f \in ChildFiles(t) :
            pv_in = [tile |-> t, files |-> f,
                     width |-> CompositeSize, height |-> CompositeSize]
    /\ pv_out = Pending
    /\ IdleCM /\ IdleFV /\ IdleWI /\ IdleRT /\ IdleFR /\ IdleCF

GetPixelValuesFromChildren ==
    /\ pv_out = Pending
    /\ pv_out' = get_pixel_values_from_children(pv_in.tile, pv_in.files,
                                                pv_in.width, pv_in.height)
    /\ UNCHANGED <<pv_in, cm_vars, fv_vars, wi_vars, rt_vars, fr_vars, cf_vars>>

NextPV == GetPixelValuesFromChildren

SpecPV == InitPV /\ [][NextPV]_vars

\* C15: a tile none of whose four children has a pixel value file is not
\* created: get_pixel_values_from_children returns None for it, which is
\* what make_tiles tests before it saves the tile, and raises nothing, so
\* that the build goes on.
C15_NoChildrenNotCreated ==
    (pv_out # Pending /\ DOMAIN pv_in.files = {}) => pv_out = Ok(None)

\* The rows of the children that are grouped in the cell of the parent.
BlockRows(cell) ==
    {r \in composite_rows(get_child_tiles(pv_in.tile), pv_in.files,
                          pv_in.width, pv_in.height) :
        parent_cell(get_child_tiles(pv_in.tile), r, pv_in.width, pv_in.height) = cell}

\* frac_covered of a row of the children.
StoredValue == [r \in composite_rows(get_child_tiles(pv_in.tile), pv_in.files,
                                     pv_in.width, pv_in.height) |->
                    pv_in.files[get_child_tiles(pv_in.tile)[r[1]]][<<r[2], r[3]>>]]

\* C19: every pixel of the parent is the average over the four child
\* pixels of its 2x2 block, a child pixel without a stored value counting
\* as 0.
C19_MeanOverWholeBlock ==
    (pv_out # Pending /\ pv_out.exc = "none") =>
        \A cell \in Cells(<<pv_in.height, pv_in.width>>) :
            4 * array_from_df(pv_out.val[1], cell) = SumOver(BlockRows(cell), StoredValue)

\* tms.bounds(tile) on a northing that grows to the north, the tiles of
\* level zoom being wide and high pixels of side 1, those of each coarser
\* level twice the side: tile y grows to the south from the top left corner
\* of the tile matrix.
tms_bounds(tile, zoom, width, height) ==
    LET side == 2 ^ (zoom - tile.z)
    IN  [left |-> tile.x * width * side, right |-> (tile.x + 1) * width * side,
         top |-> 0 - tile.y * height * side,
         bottom |-> 0 - (tile.y + 1) * height * side]

\* make_pixel_grid: the box of pixel <<pixel_row, pixel_col>> of the tile.
make_pixel_grid(tile, cell, zoom, width, height) ==
    LET bb == tms_bounds(tile, zoom, width, height)
        cols == linspace(bb.left, bb.right, width + 1)
        rows == linspace(bb.bottom, bb.top, height + 1)
    IN  [south |-> Min2(rows[cell[1]], rows[cell[1] + 1]),
         north |-> Max2(rows[cell[1]], rows[cell[1] + 1]),
         west |-> Min2(cols[cell[2]], cols[cell[2] + 1]),
         east |-> Max2(cols[cell[2]], cols[cell[2] + 1])]

\* The stored pixel of a child, and the pixel of the parent it is grouped
\* in, as boxes on the ground.
ChildBox(r) ==
    make_pixel_grid(get_child_tiles(pv_in.tile)[r[1]], <<r[2], r[3]>>,
                    pv_in.tile.z + 1, pv_in.width, pv_in.height)

ParentBox(r) ==
    make_pixel_grid(pv_in.tile,
                    parent_cell(get_child_tiles(pv_in.tile), r, pv_in.width, pv_in.height),
                    pv_in.tile.z + 1, pv_in.width, pv_in.height)

\* C20: the composite keeps the geographic order of the pixel rows and
\* columns of the children: every stored pixel of a child lies, on the
\* ground, inside the pixel of the parent it is averaged into.
C20_GeographicOrderKept ==
    (pv_out # Pending /\ pv_out.exc = "none") =>
        \A r \in DOMAIN StoredValue :
            /\ ParentBox(r).west <= ChildBox(r).west
            /\ ChildBox(r).east <= ParentBox(r).east
            /\ ParentBox(r).south <= ChildBox(r).south
            /\ ChildBox(r).north <= ParentBox(r).north

(***************************************************************************)
(* Raster.from_rasters (src/pdgraster/Raster.py)                           *)
(*                                                                         *)
(* fr_in is the call: the list of rasters (None, a path with no file, or   *)
(* the raster the file holds: its CRS, its bounds and its bands, a band    *)
(* being a grid by <<row, col>> with row 0 the northernmost), the          *)
(* resampling methods, the shape and the bounds.  fr_out is the bands of   *)
(* the raster returned, or the exception raised.  Lengths are in pixels    *)
(* of the rasters given.                                                   *)
(***************************************************************************)
MaxCount == 1

ChildShape == <<2, 2>>

\* The bounds of the child in column a and row b of the parent's quadrants,
\* b growing to the south, and those of the parent.
QuadrantBounds(a, b) ==
    [left |-> a * ChildShape[2], right |-> (a + 1) * ChildShape[2],
     top |-> (2 - b) * ChildShape[1], bottom |-> (1 - b) * ChildShape[1]]

ParentBounds ==
    [left |-> 0, right |-> 2 * ChildShape[2], bottom |-> 0, top |-> 2 * ChildShape[1]]

Quadrants == <<QuadrantBounds(0, 0), QuadrantBounds(1, 0),
               QuadrantBounds(0, 1), QuadrantBounds(1, 1)>>

NotFound == [found |-> FALSE]
RasterFile(crs, bounds, bands) ==
    [found |-> TRUE, crs |-> crs, bounds |-> bounds, bands |-> bands,
     shape |-> ChildShape]

ChildGrids ==
    {[cell \in Cells(ChildShape) |-> v] : v \in 1..MaxCount}
        \cup {[cell \in Cells(ChildShape) |-> cell[1] * ChildShape[2] + cell[2]]}

\* What the k-th entry of the list of rasters can be.
RasterEntries(k) ==
    {None, Some(NotFound)}
        \cup {Some(RasterFile("EPSG:4326", Quadrants[k], <<g>>)) : g \in ChildGrids}
        \cup {Some(RasterFile("EPSG:3857", Quadrants[k],
                              <<[cell \in Cells(ChildShape) |-> 1]>>))}

\* [r for r in rasters if r is not None], then the files that open.
opened(rasters) ==
    LET keep(e) == e # None /\ e[1].found
    IN  SelectSeq(rasters, keep)

\* __get_and_check_rasters.
get_and_check_rasters(rasters) ==
    LET found == opened(rasters)
        ref == found[1][1]
    IN  IF Len(found) = 0 THEN Raise("ValueError")
        ELSE IF \E i \in 1..Len(found) : found[i][1].crs # ref.crs
        THEN Raise("ValueError")
        ELSE IF \E i \in 1..Len(found) : Len(found[i][1].bands) # Len(ref.bands)
        THEN Raise("ValueError")
        ELSE Ok([i \in 1..Len(found) |-> found[i][1]])

\* rasterio.merge.merge: the rasters laid on one grid over the union of
\* their bounds, each cell from the first raster that covers it, 0 where
\* none does.  The grid is given with its bounds.
merge(rasters, band) ==
    LET idx == 1..Len(rasters)
        left == CHOOSE v \in {rasters[i].bounds.left : i \in idx} :
                    \A i \in idx : v <= rasters[i].bounds.left
        right == CHOOSE v \in {rasters[i].bounds.right : i \in idx} :
                    \A i \in idx : v >= rasters[i].bounds.right
        bottom == CHOOSE v \in {rasters[i].bounds.bottom : i \in idx} :
                    \A i \in idx : v <= rasters[i].bounds.bottom
        top == CHOOSE v \in {rasters[i].bounds.top : i \in idx} :
                    \A i \in idx : v >= rasters[i].bounds.top
        covers(i, cell) ==
            /\ rasters[i].bounds.left <= left + cell[2]
            /\ left + cell[2] < rasters[i].bounds.right
            /\ rasters[i].bounds.bottom < top - cell[1]
            /\ top - cell[1] <= rasters[i].bounds.top
        value(cell) ==
            IF \E i \in idx : covers(i, cell)
            THEN LET i == CHOOSE j \in idx :
                            covers(j, cell) /\ \A h \in 1..(j - 1) : ~covers(h, cell)
                 IN  rasters[i].bands[band][<<rasters[i].bounds.top - (top - cell[1]),
                                              (left + cell[2]) - rasters[i].bounds.left>>]
            ELSE 0
    IN  [bounds |-> [left |-> left, right |-> right, bottom |-> bottom, top |-> top],
         data |-> [cell \in Cells(<<top - bottom, right - left>>) |-> value(cell)]]

\* The names of rasterio.enums.Resampling.
ResamplingNames ==
    {"nearest", "bilinear", "cubic", "cubic_spline", "lanczos", "average", "mode",
     "gauss", "max", "min", "med", "q1", "q3", "sum", "rms"}

MaxOver(S, f) == CHOOSE m \in {f[x] : x \in S} : \A x \in S : f[x] <= m
MinOver(S, f) == CHOOSE m \in {f[x] : x \in S} : \A x \in S : f[x] >= m

\* The value the resampling method gives a cell of the output from the
\* cells S of the source it covers, S not empty (Resampling.sum, max and
\* min; the other methods are not drawn here).
resample_average(method, S, f) ==
    CASE method = "sum" -> SumOver(S, f) \div 4
      [] method = "max" -> MaxOver(S, f)
      [] method = "min" -> MinOver(S, f)

resample(method, S, f) ==
    CASE method = "sum" -> SumOver(S, f)
      [] method = "max" -> MaxOver(S, f)
      [] method = "min" -> MinOver(S, f)

\* reproject of one band of the merged grid onto the output grid, the cells
\* of the output being whole blocks of cells of the source.  A cell of the
\* output that lies outside the merged grid keeps the 0 of np.zeros.
reproject(merged, method, shape, bounds) ==
    LET high == (bounds.top - bounds.bottom) \div shape[1]
        wide == (bounds.right - bounds.left) \div shape[2]
        block(cell) ==
            {c \in DOMAIN merged.data :
                /\ bounds.left + cell[2] * wide <= merged.bounds.left + c[2]
                /\ merged.bounds.left + c[2] < bounds.left + (cell[2] + 1) * wide
                /\ bounds.top - (cell[1] + 1) * high < merged.bounds.top - c[1]
                /\ merged.bounds.top - c[1] <= bounds.top - cell[1] * high}
    IN  [cell \in Cells(shape) |->
            IF block(cell) = {} THEN 0 ELSE resample(method, block(cell), merged.data)]

\* The first method for every band.
method_of_first(resampling_methods, i) == resampling_methods[1]

\* resampling_methods[i], the last method where there is none for band i.
method_of(resampling_methods, i) ==
    IF i <= Len(resampling_methods) THEN resampling_methods[i]
    ELSE resampling_methods[Len(resampling_methods)]

\* __merge_and_resample.
merge_and_resample(rasters, resampling_methods, shape_arg, bounds) ==
    LET ref == rasters[1]
        count == Len(ref.bands)
        shape == IF shape_arg = None THEN ref.shape ELSE shape_arg[1]
    IN  IF bounds = None THEN Raise("TypeError")
        ELSE IF \E i \in 1..count : method_of(resampling_methods, i) \notin ResamplingNames
        THEN Raise("KeyError")
        ELSE Ok([i \in 1..count |->
                    reproject(merge(rasters, i), method_of(resampling_methods, i),
                              shape, bounds[1])])

from_rasters(rasters, resampling_methods, shape, bounds) ==
    LET checked == get_and_check_rasters(rasters)
    IN  IF checked.exc # "none" THEN checked
        ELSE merge_and_resample(checked.val, resampling_methods, shape, bounds)

\* The default of resampling_methods, ('nearest'): the parentheses make no
\* tuple, so it is the str 'nearest', and an index into it gives one
\* character.
DefaultResamplingMethods == <<"n", "e", "a", "r", "e", "s", "t">>

MethodLists == {<<"sum">>, <<"summed">>, DefaultResamplingMethods}

InitFR ==
    /\ fr_in \in [rasters : RasterEntries(1) \X RasterEntries(2)
                                \X RasterEntries(3) \X RasterEntries(4),
                  resampling_methods : MethodLists,
                  shape : {None, Some(ChildShape)},
                  bounds : {None, Some(ParentBounds)}]
    /\ fr_out = Pending
    /\ IdleCM /\ IdleFV /\ IdleWI /\ IdleRT /\ IdlePV /\ IdleCF

FromRasters ==
    /\ fr_out = Pending
    /\ fr_out' = from_rasters(fr_in.rasters, fr_in.resampling_methods,
                              fr_in.shape, fr_in.bounds)
    /\ UNCHANGED <<fr_in, cm_vars, fv_vars, wi_vars, rt_vars, pv_vars, cf_vars>>

NextFR == FromRasters

SpecFR == InitFR /\ [][NextFR]_vars

\* The cells of the child rasters that are read, <<entry, cell>>, and the
\* values of their first band.
ChildCells ==
    {k \in 1..Len(fr_in.rasters) :
        fr_in.rasters[k] # None /\ fr_in.rasters[k][1].found} \X Cells(ChildShape)

ChildValue == [p \in ChildCells |-> fr_in.rasters[p[1]][1].bands[1][p[2]]]

\* The cells of the children that lie, on the ground, in the cell of the
\* parent: its 2x2 block.
BlockOf(cell) ==
    {p \in ChildCells :
        LET b == fr_in.rasters[p[1]][1].bounds
        IN  /\ (b.left + p[2][2] - ParentBounds.left) \div 2 = cell[2]
            /\ (ParentBounds.top - (b.top - p[2][1])) \div 2 = cell[1]}

\* C17: from_rasters with the method sum and the shape of the children
\* gives every cell of the parent the sum of the 2x2 block of child cells
\* it covers, so the total over the parent is the total over the children.
C17_SumOfBlocks ==
    (fr_out # Pending /\ fr_out.exc = "none"
        /\ method_of(fr_in.resampling_methods, 1) = "sum") =>
        /\ DOMAIN fr_out.val[1] = Cells(ChildShape)
        /\ \A cell \in Cells(ChildShape) :
            fr_out.val[1][cell] = SumOver(BlockOf(cell), ChildValue)
        /\ SumOver(Cells(ChildShape), fr_out.val[1]) = SumOver(ChildCells, ChildValue)

\* Four children of all 1s have given a parent of all 4s.
C17_Witness ==
    /\ fr_out # Pending /\ fr_out.exc = "none"
    /\ method_of(fr_in.resampling_methods, 1) = "sum"
    /\ Cardinality(ChildCells) = 16
    /\ \A p \in ChildCells : ChildValue[p] = 1
    /\ \A cell \in Cells(ChildShape) : fr_out.val[1][cell] = 4

(***************************************************************************)
(* Further claims about make_tiles, checked under SpecRT.                  *)
(***************************************************************************)
\* The tiles on disk of a zoom level.
SavedAt(disk, z) == {t \in DOMAIN disk : t.z = z}

\* tile is one of the four children of parent.
IsChildOf(tile, parent) == \E k \in 1..4 : get_child_tiles(parent)[k] = tile

\* C27: when make_tiles leaves level z for level z - 1, the parent tiles to
\* make are exactly the tiles of level z - 1 that have a child among the
\* tiles created at level z, every created tile has its parent among them,
\* and a tile is saved once in a build: it is not on disk when it is saved.
C27_CandidatesAreParentsOfCreated ==
    [][/\ (rt.pc = "loop" /\ rt'.pc = "call") =>
            /\ \A p \in rt'.parent_tiles_to_make :
                /\ p.z = rt.current_zoom - 1
                /\ \E t \in SavedAt(rt_disk, rt.current_zoom) : IsChildOf(t, p)
            /\ \A t \in SavedAt(rt_disk, rt.current_zoom) :
                \E p \in rt'.parent_tiles_to_make : IsChildOf(t, p)
       /\ (rt'.pc = "loop" /\ rt.pc = "call") => rt'.todo = rt.parent_tiles_to_make
                                                    \/ rt.current_zoom = rt_in.max_zoom
       /\ \A t \in DOMAIN rt_disk' : t \in DOMAIN rt_disk => rt_disk'[t] = rt_disk[t]]_vars

\* Two tiles created at a level share their parent, which is listed once.
C27_Witness ==
    /\ rt.pc = "call"
    /\ rt.current_zoom < rt_in.max_zoom
    /\ Cardinality(rt.parent_tiles_to_make) = 1
    /\ Cardinality(SavedAt(rt_disk, rt.current_zoom + 1)) = 2

\* make_tiles under the scheduling of a sequential program: a step that can
\* be taken is taken.
FairSpecRT == SpecRT /\ WF_vars(NextRT)

\* C28: make_tiles terminates: each step leaves the zoom level as it is or
\* lowers it by exactly one, the level never goes below min_zoom, and in
\* the end the build has raised or is done, having processed level
\* min_zoom last.
C28_Terminates ==
    /\ [][/\ rt'.current_zoom \in {rt.current_zoom, rt.current_zoom - 1}
          /\ rt'.current_zoom >= rt_in.min_zoom
          /\ rt'.current_zoom >= 0]_vars
    /\ <>[](\/ rt.pc = "raised"
            \/ rt.pc = "done" /\ rt.current_zoom = rt_in.min_zoom)

\* A build over more than one level has ended.
C28_Witness ==
    /\ rt.pc = "done"
    /\ rt.current_zoom = rt_in.min_zoom
    /\ rt_in.min_zoom + 1 < rt_in.max_zoom
    /\ SavedAt(rt_disk, rt_in.min_zoom) # {}

(***************************************************************************)
(* A further claim about WebImage, checked under SpecWI.                   *)
(***************************************************************************)
\* The values of the pixels that are finite and not equal to nodata_val.
DataValues == {wi_in.image_data[c].v : c \in DataCells}

\* C29: a min_val or max_val that is not given is computed as the least or
\* the greatest of the pixels that are finite and not equal to nodata_val.
C29_ExtremaOverDataCells ==
    (wi_out # Pending /\ DataCells # {}) =>
        /\ wi_in.min_val = None =>
            (wi_out.min_val \in DataValues /\ \A v \in DataValues : wi_out.min_val <= v)
        /\ wi_in.max_val = None =>
            (wi_out.max_val \in DataValues /\ \A v \in DataValues : wi_out.max_val >= v)

(***************************************************************************)
(* update_ranges called with a statistic that is not configured among the  *)
(* keys of new_ranges, next to one that is.                                *)
(***************************************************************************)
UnknownStats == StatArgs \ {ConfiguredNames[i] : i \in 1..Len(ConfiguredNames)}

\* The two orders of an entry of a configured statistic and an entry of an
\* unknown one.
MixedRangesArgs ==
    LET known == {e \in RangeEntries : e.stat \notin UnknownStats}
        unknown == {e \in RangeEntries :
                        e.stat \in UnknownStats /\ e.val_range = <<Some(0), Some(MaxVal)>>}
    IN  {<<k, u>> : k \in known, u \in unknown} \cup {<<u, k>> : k \in known, u \in unknown}

UpdateRangesMixed ==
    /\ cm_last.op = "init"
    /\ \E new_ranges \in MixedRangesArgs :
           Call([NoCall EXCEPT !.op = "update_ranges", !.new_ranges = new_ranges],
                update_ranges(statistics, new_ranges))

NextUR == UpdateRangesMixed

SpecUR == InitCM /\ [][NextUR]_vars

\* The entries of new_ranges that come before the first one whose statistic
\* is not configured.
RECURSIVE BeforeUnknown(_)
BeforeUnknown(new_ranges) ==
    IF new_ranges = <<>> \/ Head(new_ranges).stat \in UnknownStats THEN <<>>
    ELSE <<Head(new_ranges)>> \o BeforeUnknown(Tail(new_ranges))

FailedOnUnknown ==
    /\ cm_last.op = "update_ranges"
    /\ cm_last.exc = "ValueError"
    /\ \E i \in 1..Len(cm_last.new_ranges) : cm_last.new_ranges[i].stat \in UnknownStats

\* C22 as stated: a call of update_ranges that fails on a statistic that is
\* not configured changes no value range.
C22_AllOrNothing == FailedOnUnknown => statistics = cm_pre

\* C22: a call of update_ranges that fails on a statistic that is not
\* configured has updated the value ranges of the entries that come before
\* that statistic in new_ranges, as a call with those entries alone does,
\* and has changed nothing else.
C22_AppliedUpToUnknown ==
    FailedOnUnknown =>
        /\ update_ranges(cm_pre, BeforeUnknown(cm_last.new_ranges)).exc = "none"
        /\ statistics = update_ranges(cm_pre, BeforeUnknown(cm_last.new_ranges)).val

\* The call has failed after it changed the range of a configured statistic.
C22_Witness ==
    /\ FailedOnUnknown
    /\ BeforeUnknown(cm_last.new_ranges) # <<>>
    /\ statistics # cm_pre

(***************************************************************************)
(* ConfigManager: the configuration and its copy, original_config.         *)
(*                                                                         *)
(* config and original_config are the two top-level dicts, by key.  A      *)
(* value is an int, a dict (the set of its <<key, int>> items) or the list *)
(* of statistics: that list is one object, the one held in statistics,     *)
(* and both dicts refer to it, since dict.copy() copies the top level      *)
(* only.  The ints and dicts are replaced as a whole by set, never changed *)
(* in place.                                                               *)
(***************************************************************************)
MaxCalls == 2

IntValue(n) == [kind |-> "int", n |-> n, d |-> {}]
DictValue(d) == [kind |-> "dict", n |-> 0, d |-> d]
StatisticsList == [kind |-> "list", n |-> 0, d |-> {}]

\* The keys of a dict value, and the item of a key.
keys(d) == {p[1] : p \in d}
item(d, k) == (CHOOSE p \in d : p[1] = k)[2]

\* The keys of the configuration in the order of insertion: those of the
\* configuration read at construction, then the ones set adds.
KeyOrder == <<"statistics", "a", "d", "n">>

\* config.copy(): a new top-level dict with the same values.
copy(c) == [k \in DOMAIN c |-> c[k]]

\* set(key, value): self.config[key] = value
set(c, key, value) == [k \in DOMAIN c \cup {key} |-> IF k = key THEN value ELSE c[k]]

Added(key) == [key |-> key, subkey |-> "", change |-> "added",
               old |-> IntValue(0), new |-> IntValue(0)]
Changed(key, subkey, old, new) ==
    [key |-> key, subkey |-> subkey, change |-> "changed", old |-> old, new |-> new]
Removed(key) == [key |-> key, subkey |-> "", change |-> "removed",
                 old |-> IntValue(0), new |-> IntValue(0)]

\* One pass of the first loop of list_updates, for key.
updates_of_key(current_config, orig, key) ==
    LET curr_val == current_config[key] IN
    IF key \notin DOMAIN orig THEN Raise("KeyError")
    ELSE LET old_val == orig[key] IN
         IF curr_val = old_val THEN Ok({})
         ELSE IF curr_val.kind = "dict"
         THEN IF curr_val.d # {} /\ old_val.kind = "int" THEN Raise("TypeError")
              ELSE Ok({[Added(key) EXCEPT !.subkey = sk] :
                                sk \in {k \in keys(curr_val.d) : k \notin keys(old_val.d)}}
                       \cup {Changed(key, sk, IntValue(item(old_val.d, sk)),
                                     IntValue(item(curr_val.d, sk))) :
                                sk \in {k \in keys(curr_val.d) :
                                          /\ k \in keys(old_val.d)
                                          /\ item(curr_val.d, k) # item(old_val.d, k)}})
         ELSE Ok({Changed(key, "", old_val, curr_val)})

\* list_updates: the set of the updates listed, or the exception of the
\* first key that raises one.
RECURSIVE list_updates_from(_, _, _, _)
list_updates_from(current_config, orig, i, updates) ==
    IF i > Len(KeyOrder)
    THEN Ok(updates \cup {Removed(key) : key \in DOMAIN orig \ DOMAIN current_config})
    ELSE IF KeyOrder[i] \notin DOMAIN current_config
    THEN list_updates_from(current_config, orig, i + 1, updates)
    ELSE LET u == updates_of_key(current_config, orig, KeyOrder[i]) IN
         IF u.exc # "none" THEN u
         ELSE list_updates_from(current_config, orig, i + 1, updates \cup u.val)

list_updates(current_config, orig) == list_updates_from(current_config, orig, 1, {})

SetKeys == {"a", "d", "n"}
SetValues == {IntValue(1), IntValue(2), DictValue({<<"k", 1>>}),
              DictValue({<<"k", 2>>, <<"j", 1>>})}

ConstructedConfig ==
    [k \in {"statistics", "a", "d"} |->
        IF k = "statistics" THEN StatisticsList
        ELSE IF k = "a" THEN IntValue(1) ELSE DictValue({<<"k", 1>>})]

ConstructedStatistics ==
    {<<[name |-> "a", val_range |-> r, z_config |-> [z \in Zs |-> AbsentEntry]],
       [name |-> "b", val_range |-> <<Some(0), Some(MaxVal)>>,
        z_config |-> [z \in Zs |-> AbsentEntry]]>> : r \in {None, <<Some(0), None>>}}

NoCfCall == [calls |-> 0, op |-> "init", key |-> "", value |-> IntValue(0)]

\* ConfigManager(config)
InitCF ==
    /\ statistics \in ConstructedStatistics
    /\ config = ConstructedConfig
    /\ original_config = copy(config)
    /\ cf_init = [config |-> config, statistics |-> statistics]
    /\ cf_last = NoCfCall
    /\ cf_out = Pending
    /\ cm_pre = <<>> /\ cm_last = NoCall
    /\ IdleFV /\ IdleWI /\ IdleRT /\ IdlePV /\ IdleFR

\* A call that changes the statistics, or leaves them when it raises.
StatisticsCall(op, r) ==
    /\ statistics' = IF r.exc = "none" THEN r.val ELSE statistics
    /\ cf_last' = [cf_last EXCEPT !.calls = @ + 1, !.op = op]
    /\ cf_out' = Pending
    /\ UNCHANGED <<config, original_config, cf_init, cm_pre, cm_last,
                   fv_vars, wi_vars, rt_vars, pv_vars, fr_vars>>

CfSet ==
    /\ cf_last.calls < MaxCalls
    /\ \E key \in SetKeys, value \in SetValues :
        /\ config' = set(config, key, value)
        /\ cf_last' = [calls |-> cf_last.calls + 1, op |-> "set",
                       key |-> key, value |-> value]
    /\ cf_out' = Pending
    /\ UNCHANGED <<statistics, original_config, cf_init, cm_pre, cm_last,
                   fv_vars, wi_vars, rt_vars, pv_vars, fr_vars>>

CfSetMin ==
    /\ cf_last.calls < MaxCalls
    /\ \E z \in {None, Some(0)} :
        StatisticsCall("set_min", set_min(statistics, Some(MaxVal), "a", z))

CfSetMax ==
    /\ cf_last.calls < MaxCalls
    /\ \E z \in {None, Some(0)} :
        StatisticsCall("set_max", set_max(statistics, Some(MaxVal), "a", z))

CfCreateValueRange ==
    /\ cf_last.calls < MaxCalls
    /\ \E z \in {None, Some(0)}, overwrite \in BOOLEAN :
        StatisticsCall("create_value_range",
                       create_value_range(statistics, "a", z, overwrite))

CfUpdateRanges ==
    /\ cf_last.calls < MaxCalls
    /\ StatisticsCall("update_ranges",
                      update_ranges(statistics,
                                    <<[stat |-> "a", z |-> 0,
                                       val_range |-> <<Some(0), Some(MaxVal)>>]>>))

ListUpdates ==
    /\ cf_out = Pending
    /\ cf_out' = list_updates(config, original_config)
    /\ UNCHANGED <<statistics, config, original_config, cf_init, cf_last,
                   cm_pre, cm_last, fv_vars, wi_vars, rt_vars, pv_vars, fr_vars>>

NextCF ==
    CfSet \/ CfSetMin \/ CfSetMax \/ CfCreateValueRange \/ CfUpdateRanges \/ ListUpdates

SpecCF == InitCF /\ [][NextCF]_vars

\* C23: original_config is a snapshot: the top-level dict is the one of
\* construction, and the statistics it refers to are as they were at
\* construction, whatever set, set_min, set_max, create_value_range and
\* update_ranges have done since.
C23_OriginalIsSnapshot ==
    /\ original_config = cf_init.config
    /\ (\E k \in DOMAIN original_config : original_config[k] = StatisticsList) =>
            statistics = cf_init.statistics

\* C30: list_updates does not raise; it lists '<key> added' for every key
\* that set has added, and '<key> changed from <old> to <new>' for every
\* key of the original configuration that set has given another value that
\* is not a dict.
C30_ListUpdatesReports ==
    (cf_out # Pending) =>
        /\ cf_out.exc = "none"
        /\ \A key \in DOMAIN config \ DOMAIN cf_init.config : Added(key) \in cf_out.val
        /\ \A key \in DOMAIN config \cap DOMAIN cf_init.config :
            (config[key] # cf_init.config[key] /\ config[key].kind # "dict") =>
                Changed(key, "", cf_init.config[key], config[key]) \in cf_out.val

(***************************************************************************)
(* The area keywords of from_vector, checked under SpecFV.                 *)
(***************************************************************************)
AreaStats(property) ==
    {i \in 1..Len(fv_in.stats) :
        /\ fv_in.stats[i].weight_by = "area"
        /\ fv_in.stats[i].property = property
        /\ fv_in.stats[i].aggregation_method = "sum"}

\* The summed area of the polygon parts inside the cell, in CRS units.
ClippedArea(cell) ==
    SumOver(Covering(cell),
            [k \in Covering(cell) |-> OverlapArea(fv_in.vector[k], FVGrid, cell[1], cell[2])])

\* C21: when all the statistics are weighted by area, from_vector returns a
\* raster; the band of a statistic that sums area_within_pixel holds, in
\* every cell, the area of the polygon parts inside the cell, and the band
\* of one that sums area_per_pixel_area holds that area divided by the area
\* of the cell.
C21_AreaKeywords ==
    (/\ fv_out # Pending
     /\ \A i \in 1..Len(fv_in.stats) : fv_in.stats[i].weight_by = "area"
     /\ AreaStats("area_within_pixel") # {}) =>
        /\ Returned
        /\ \A i \in AreaStats("area_within_pixel") :
           \A b \in BandsOf(fv_in.stats[i]), cell \in AllCells :
                fv_out.val[b].data[cell] = Fin(Fixed(ClippedArea(cell)))
        /\ \A i \in AreaStats("area_per_pixel_area") :
           \A b \in BandsOf(fv_in.stats[i]), cell \in AllCells :
                fv_out.val[b].data[cell] = Fin(Fixed(ClippedArea(cell)) \div FVGrid.cell_area)

(***************************************************************************)
(* Two tiles that share an edge, each rasterized by from_vector from the   *)
(* same vector data.  fv_in holds the bounds of the two tiles, fv_out the  *)
(* data frame of __grid_by_centroid and the raster of each tile.           *)
(***************************************************************************)
TileWidth == TileBounds.right - TileBounds.left
TileHeight == TileBounds.top - TileBounds.bottom

\* The tile dx tiles to the right of and dy tiles above the tile TileBounds.
TileAt(dx, dy) ==
    [left |-> TileBounds.left + dx * TileWidth, right |-> TileBounds.right + dx * TileWidth,
     bottom |-> TileBounds.bottom + dy * TileHeight, top |-> TileBounds.top + dy * TileHeight]

\* Two tiles side by side, and two tiles one above the other.
TilePairs == {<<TileAt(0, 0), TileAt(1, 0)>>, <<TileAt(0, 1), TileAt(0, 0)>>}

PairBox(tiles) ==
    [left |-> Min2(tiles[1].left, tiles[2].left), right |-> Max2(tiles[1].right, tiles[2].right),
     bottom |-> Min2(tiles[1].bottom, tiles[2].bottom), top |-> Max2(tiles[1].top, tiles[2].top)]

\* Squares as wide as a cell whose centroid is any point of the integer
\* lattice of the box of the two tiles, its edges included.
PairPolygons(tiles) ==
    {[x0 |-> x, x1 |-> x + PolySide, y0 |-> y, y1 |-> y + PolySide, cent_x |-> 1, cent_y |-> 3] :
        x \in (PairBox(tiles).left - PolySide \div 2)..(PairBox(tiles).right - PolySide \div 2),
        y \in (PairBox(tiles).bottom - PolySide \div 2)..(PairBox(tiles).top - PolySide \div 2)}

PairVectors(tiles) ==
    UNION {{v \in [1..n -> PairPolygons(tiles)] :
                \A k \in 1..(n - 1) : Rank(v[k]) <= Rank(v[k + 1])}
           : n \in 1..MaxPolys}

CountStats ==
    <<[name |-> "s1", weight_by |-> "count", property |-> "centroids_per_pixel",
       aggregation_method |-> "sum"]>>

NotRasterized == [done |-> FALSE, centroid_gdf |-> <<>>, raster |-> Pending]

InitTP ==
    /\ IdleCM /\ IdleWI /\ IdleRT /\ IdlePV /\ IdleFR /\ IdleCF
    /\ \E tiles \in TilePairs :
       \E vector \in PairVectors(tiles) :
          fv_in = [vector |-> vector, centroid_properties |-> None, tiles |-> tiles,
                   shape |-> TileShape, stats |-> CountStats]
    /\ fv_out = <<NotRasterized, NotRasterized>>

\* The arguments of from_vector for tile t of the pair.
TileInput(t) ==
    [vector |-> fv_in.vector, centroid_properties |-> fv_in.centroid_properties,
     bounds |-> fv_in.tiles[t], shape |-> fv_in.shape, stats |-> fv_in.stats]

RasterizeTile(t) ==
    /\ ~fv_out[t].done
    /\ fv_out' = [fv_out EXCEPT ![t] =
                    [done |-> TRUE,
                     centroid_gdf |-> grid_by_centroid(TileInput(t),
                                                       set_grid(fv_in.tiles[t], fv_in.shape)),
                     raster |-> from_vector(TileInput(t))]]
    /\ UNCHANGED <<fv_in, cm_vars, wi_vars, rt_vars, pv_vars, fr_vars, cf_vars>>

RasterizeFirst == RasterizeTile(1)
RasterizeSecond == RasterizeTile(2)

NextTP == RasterizeFirst \/ RasterizeSecond

SpecTP == InitTP /\ [][NextTP]_vars

BothRasterized == fv_out[1].done /\ fv_out[2].done

\* The polygons counted in the cell of tile t: the rows of the data frame
\* of the tile that carry the row and column index of the cell.
CountedIn(t, cell) ==
    {k \in DOMAIN fv_out[t].centroid_gdf.rows :
        /\ fv_out[t].centroid_gdf.rows[k].row = cell[1]
        /\ fv_out[t].centroid_gdf.rows[k].col = cell[2]}

\* The cells of the two tiles that polygon k is counted in.
CellsCounting(k) ==
    {tc \in {1, 2} \X Cells(fv_in.shape) : k \in CountedIn(tc[1], tc[2])}

InBox(pt, b) ==
    /\ b.left <= pt.x /\ pt.x <= b.right
    /\ b.bottom <= pt.y /\ pt.y <= b.top

StrictlyInBox(pt, b) ==
    /\ b.left < pt.x /\ pt.x < b.right
    /\ b.bottom < pt.y /\ pt.y < b.top

\* The point lies on the edge the two tiles share, its two ends included.
OnSharedEdge(pt) == InBox(pt, fv_in.tiles[1]) /\ InBox(pt, fv_in.tiles[2])

\* The point lies on the top or on the left edge of the box of the pair.
OnTopOrLeftOfPair(pt) ==
    pt.x = PairBox(fv_in.tiles).left \/ pt.y = PairBox(fv_in.tiles).top

\* The point lies on a boundary between cells, inside tile t.
OnCellBoundaryInside(pt, t) ==
    LET g == set_grid(fv_in.tiles[t], fv_in.shape) IN
    /\ StrictlyInBox(pt, fv_in.tiles[t])
    /\ \/ \E j \in DOMAIN g.cols : g.cols[j] = pt.x
       \/ \E i \in DOMAIN g.rows : g.rows[i] = pt.y

\* The band of each tile holds the number of polygons counted in the cell.
BandsHoldCounts ==
    \A t \in {1, 2} :
        /\ fv_out[t].raster.exc = "none"
        /\ \A cell \in Cells(fv_in.shape) :
            fv_out[t].raster.val[1].data[cell] = Fin(Fixed(Cardinality(CountedIn(t, cell))))

\* C25 as stated: every polygon whose centroid lies on the shared edge is
\* counted in exactly one cell of the two tiles, and so is every polygon
\* whose centroid lies on a cell boundary inside one of the tiles.
C25_SharedEdgeOnce ==
    BothRasterized =>
        /\ BandsHoldCounts
        /\ \A k \in 1..Len(fv_in.vector) :
            (\/ OnSharedEdge(CentroidOf(k))
             \/ \E t \in {1, 2} : OnCellBoundaryInside(CentroidOf(k), t)) =>
                Cardinality(CellsCounting(k)) = 1

\* C25, amended: the same for every polygon whose centroid lies on the
\* shared edge but not on the top or the left edge of the box of the two
\* tiles: the end of the shared edge that lies there belongs to a tile
\* outside the pair.
C25_SharedEdgeOnceInsidePair ==
    BothRasterized =>
        /\ BandsHoldCounts
        /\ \A k \in 1..Len(fv_in.vector) :
            (\/ OnSharedEdge(CentroidOf(k)) /\ ~OnTopOrLeftOfPair(CentroidOf(k))
             \/ \E t \in {1, 2} : OnCellBoundaryInside(CentroidOf(k), t)) =>
                Cardinality(CellsCounting(k)) = 1

C25_Witness ==
    /\ BothRasterized
    /\ \E k, l \in 1..Len(fv_in.vector) :
        /\ OnSharedEdge(CentroidOf(k)) /\ ~OnTopOrLeftOfPair(CentroidOf(k))
        /\ CellsCounting(k) # {}
        /\ OnCellBoundaryInside(CentroidOf(l), 2)
        /\ CellsCounting(l) # {}

(***************************************************************************)
(* from_rasters without a resampling_methods argument, under SpecFR.       *)
(***************************************************************************)
\* C24: a call of from_rasters that leaves resampling_methods out, with
\* rasters that pass the checks and with bounds, returns a raster, and
\* every band of it is resampled with the method 'nearest'.
C24_DefaultIsNearest ==
    (/\ fr_out # Pending
     /\ fr_in.resampling_methods = DefaultResamplingMethods
     /\ get_and_check_rasters(fr_in.rasters).exc = "none"
     /\ fr_in.bounds # None) =>
        /\ fr_out.exc = "none"
        /\ \A i \in 1..Len(get_and_check_rasters(fr_in.rasters).val[1].bands) :
            method_of(fr_in.resampling_methods, i) = "nearest"

(***************************************************************************)
(* from_rasters on rasters of three bands, with one, two or three          *)
(* resampling methods.                                                     *)
(***************************************************************************)
BandCount == 3

BandMethods == {"sum", "max", "min"}

BandMethodLists == UNION {[1..n -> BandMethods] : n \in 1..BandCount}

\* The children of the north-west and of the south-east quadrant, each
\* left out or a raster of three bands.
BandRasters(q) ==
    {None} \cup {Some(RasterFile("EPSG:4326", Quadrants[q], bands)) :
                    bands \in [1..BandCount -> ChildGrids]}

InitFB ==
    /\ fr_in \in [rasters : BandRasters(1) \X BandRasters(4),
                  resampling_methods : BandMethodLists,
                  shape : {Some(ChildShape)},
                  bounds : {Some(ParentBounds)}]
    /\ fr_out = Pending
    /\ IdleCM /\ IdleFV /\ IdleWI /\ IdleRT /\ IdlePV /\ IdleCF

SpecFB == InitFB /\ [][NextFR]_vars

\* The values of band i of the cells of the children.
ChildValueOf(i) == [p \in ChildCells |-> fr_in.rasters[p[1]][1].bands[i][p[2]]]

\* The method the documentation gives band i, bands counted from 1.
DocumentedMethod(i) ==
    fr_in.resampling_methods[IF i <= Len(fr_in.resampling_methods) THEN i
                             ELSE Len(fr_in.resampling_methods)]

\* What the method makes of the values of band i over the block of child
\* cells under a cell of the parent; 0 where no child lies under it.
MethodOverBlock(method, i, cell) ==
    LET values == {ChildValueOf(i)[p] : p \in BlockOf(cell)} IN
    IF BlockOf(cell) = {} THEN 0
    ELSE IF method = "sum" THEN SumOver(BlockOf(cell), ChildValueOf(i))
    ELSE IF method = "max" THEN CHOOSE m \in values : \A v \in values : v <= m
    ELSE CHOOSE m \in values : \A v \in values : v >= m

\* C26: every band i of the raster from_rasters returns is band i of the
\* children resampled with resampling_methods[i], or with the last method
\* when the list is shorter: a function of that band and that method only.
C26_BandByItsOwnMethod ==
    (fr_out # Pending /\ fr_out.exc = "none") =>
        /\ Len(fr_out.val) = BandCount
        /\ \A i \in 1..BandCount, cell \in Cells(ChildShape) :
            fr_out.val[i][cell] = MethodOverBlock(DocumentedMethod(i), i, cell)

\* Three bands have been resampled with a list of two different methods:
\* the second and the third band hold what the second method gives, which
\* is not what the first would have given.
C26_Witness ==
    /\ fr_out # Pending /\ fr_out.exc = "none"
    /\ Len(fr_in.resampling_methods) = 2
    /\ fr_in.resampling_methods[1] # fr_in.resampling_methods[2]
    /\ \A i \in 2..BandCount : \E cell \in Cells(ChildShape) :
        /\ fr_out.val[i][cell] = MethodOverBlock(fr_in.resampling_methods[2], i, cell)
        /\ fr_out.val[i][cell] # MethodOverBlock(fr_in.resampling_methods[1], i, cell)

====
